---- MODULE Spec2Model ----
(***************************************************************************)
(* Request-lifecycle and concurrency-control layer of the movie backend:   *)
(* the lifecycle of serve() with the background-task WaitGroup, the        *)
(* optimistic update of a movie, the per-client rate limiter and the       *)
(* authenticate / requirePermission chain over the token store.            *)
(* Each subsystem has its own specification over its own variables; the    *)
(* variables of the other subsystems stay as Init left them.               *)
(***************************************************************************)
EXTENDS Integers, Sequences, FiniteSets, TLC

VARIABLES
    \* ---- serve() and background()
    mainpc,        \* position of serve() in the main goroutine
    serveResult,   \* what serve() returned
    gpc,           \* position of the shutdown goroutine of serve()
    srvr,          \* state of the http.Server listener
    wtgrp,         \* counter of bknd.wtgrp
    tasks,         \* state of each function handed to background()
    hreq,          \* state of each HTTP request the server may accept
    exited,        \* the process has ended (main returned or os.Exit)
    scheduledIn,   \* history: where the shutdown goroutine stood when each task was scheduled
    hresp,         \* the response written for each HTTP request
    \* ---- movies table and updateMovieHandler
    movies,          \* the movies rows with their movie_genres links, by id
    commits,         \* history: committed Update transactions per movie
    ureq,            \* the update requests in progress
    clientFoundRows, \* DSN option: RowsAffected counts matched (not changed) rows
    txn,             \* the transactions of MovieModel.Update, statement by statement
    \* ---- rateLimiter
    now,             \* the wall clock, in ticks
    mtx,             \* the limiter's sync.Mutex: "unlocked" or "locked"
    clients,         \* the clients map: per client key, its limiter and lastSeen
    lreq,            \* the requests passing through rateLimiter
    sweeper,         \* position of the cleanup goroutine
    stats,           \* history: per client key, what happened since its record was made
    limiterEnabled,  \* bknd.config.limiter.enabled
    calls,           \* history: the requests of one client handled one after another
    \* ---- users, tokens, permissions; authenticate and the require* chain
    clock,           \* the wall clock, in hours
    users,           \* the users rows
    permissions,     \* the permission codes granted per user
    tokens,          \* the tokens rows
    issued,          \* history: the Token values NewToken has returned
    areq,            \* the request passing through authenticate and the gate
    vreq,            \* the requests served by activateUserHandler
    activatedOk,     \* history: the users activateUserHandler has answered 200 for
    \* enableCORS and requestMetrics
    preq,            \* the requests passing through enableCORS and requestMetrics
    metrics,         \* the expvar counters of requestMetrics
    \* registerUserHandler and createAuthTokenHandler
    rreq,            \* the requests served by registerUserHandler
    creq             \* the requests served by createAuthTokenHandler

serveVars == <<mainpc, serveResult, gpc, srvr, wtgrp, tasks, hreq, exited, scheduledIn, hresp>>
movieVars == <<movies, commits, ureq, clientFoundRows, txn>>

limVars == <<now, mtx, clients, lreq, sweeper, stats, limiterEnabled>>
authVars == <<clock, users, permissions, tokens, issued, areq>>

histVars == <<calls>>

actVars == <<vreq, activatedOk>>

pipeVars == <<preq, metrics>>

regVars == <<rreq, creq>>

vars == <<serveVars, movieVars, limVars, authVars, histVars, actVars, pipeVars, regVars>>

notServeVars == <<movieVars, limVars, authVars, histVars, actVars, pipeVars, regVars>>
notMovieVars == <<serveVars, limVars, authVars, histVars, actVars, pipeVars, regVars>>
notLimVars == <<serveVars, movieVars, authVars, histVars, actVars, pipeVars, regVars>>
notAuthVars == <<serveVars, movieVars, limVars, histVars, actVars, pipeVars, regVars>>
notAuthActVars == <<serveVars, movieVars, limVars, histVars, pipeVars, regVars>>
notPipeVars == <<serveVars, movieVars, limVars, authVars, histVars, actVars, regVars>>

(***************************************************************************)
(* serve(), its shutdown goroutine, and background()                       *)
(***************************************************************************)
MaxTasks == 2
MaxHttpReqs == 2

TaskIds == 1..MaxTasks
HttpReqs == 1..MaxHttpReqs

\* No response written yet.
NoHResp == [status |-> 0, connection |-> "", error |-> ""]

InitServeVars ==
    /\ mainpc = "start"
    /\ serveResult = "none"
    /\ gpc = "awaitSignal"
    /\ srvr = "new"
    /\ wtgrp = 0
    /\ tasks = [t \in TaskIds |-> "unused"]
    /\ hreq = [r \in HttpReqs |-> "idle"]
    /\ exited = FALSE
    /\ scheduledIn = [t \in TaskIds |-> ""]
    /\ hresp = [r \in HttpReqs |-> NoHResp]

\* srvr.ListenAndServe() binds the port and starts accepting connections.
ListenAndServe ==
    /\ ~exited
    /\ mainpc = "start"
    /\ srvr = "new"
    /\ mainpc' = "ListenAndServe"
    /\ srvr' = "listening"
    /\ UNCHANGED <<serveResult, gpc, wtgrp, tasks, hreq, exited, scheduledIn, hresp>>
    /\ UNCHANGED notServeVars

\* srvr.ListenAndServe() fails (the port is taken): serve() returns that error.
ListenAndServeFails ==
    /\ ~exited
    /\ mainpc = "start"
    /\ srvr = "new"
    /\ mainpc' = "return"
    /\ serveResult' = "listen_error"
    /\ UNCHANGED <<gpc, srvr, wtgrp, tasks, hreq, exited, scheduledIn, hresp>>
    /\ UNCHANGED notServeVars

\* srvr.ListenAndServe() returns http.ErrServerClosed once Shutdown was called;
\* serve() goes on to receive from shutdownError.
ListenAndServeClosed ==
    /\ ~exited
    /\ mainpc \in {"start", "ListenAndServe"}
    /\ srvr = "closed"
    /\ mainpc' = "recvShutdownError"
    /\ UNCHANGED <<serveResult, gpc, srvr, wtgrp, tasks, hreq, exited, scheduledIn, hresp>>
    /\ UNCHANGED notServeVars

\* sig := <-quit : a SIGINT or SIGTERM is delivered.
ReceiveSignal ==
    /\ ~exited
    /\ gpc = "awaitSignal"
    /\ gpc' = "Shutdown"
    /\ UNCHANGED <<mainpc, serveResult, srvr, wtgrp, tasks, hreq, exited, scheduledIn, hresp>>
    /\ UNCHANGED notServeVars

\* srvr.Shutdown(ctx) first closes the listeners.
ShutdownCloseListeners ==
    /\ ~exited
    /\ gpc = "Shutdown"
    /\ gpc' = "ShutdownWaitIdle"
    /\ srvr' = "closed"
    /\ UNCHANGED <<mainpc, serveResult, wtgrp, tasks, hreq, exited, scheduledIn, hresp>>
    /\ UNCHANGED notServeVars

InFlight == {r \in HttpReqs : hreq[r] = "handling"}

ShutdownReturnsNil_SkipWait ==
    /\ ~exited
    /\ gpc = "ShutdownWaitIdle"
    /\ InFlight = {}
    /\ gpc' = "sendNil"
    /\ UNCHANGED <<mainpc, serveResult, srvr, wtgrp, tasks, hreq, exited, scheduledIn, hresp>>
    /\ UNCHANGED notServeVars

\* srvr.Shutdown(ctx) returns nil: every connection went idle within the grace period.
ShutdownReturnsNil ==
    /\ ~exited
    /\ gpc = "ShutdownWaitIdle"
    /\ InFlight = {}
    /\ gpc' = "Wait"
    /\ UNCHANGED <<mainpc, serveResult, srvr, wtgrp, tasks, hreq, exited, scheduledIn, hresp>>
    /\ UNCHANGED notServeVars

\* srvr.Shutdown(ctx) returns the context's error: requests were still in flight
\* when the 30 seconds ran out.
ShutdownTimesOut ==
    /\ ~exited
    /\ gpc = "ShutdownWaitIdle"
    /\ InFlight # {}
    /\ gpc' = "sendErr"
    /\ UNCHANGED <<mainpc, serveResult, srvr, wtgrp, tasks, hreq, exited, scheduledIn, hresp>>
    /\ UNCHANGED notServeVars

SendShutdownErr_Swallowed ==
    /\ ~exited
    /\ gpc = "sendErr"
    /\ gpc' = "Wait"
    /\ UNCHANGED <<mainpc, serveResult, srvr, wtgrp, tasks, hreq, exited, scheduledIn, hresp>>
    /\ UNCHANGED notServeVars

\* shutdownError <- err meets err = <-shutdownError (the channel is unbuffered):
\* serve() returns err, the goroutine goes on to bknd.wtgrp.Wait().
SendShutdownErr ==
    /\ ~exited
    /\ gpc = "sendErr"
    /\ mainpc = "recvShutdownError"
    /\ gpc' = "Wait"
    /\ mainpc' = "return"
    /\ serveResult' = "shutdown_error"
    /\ UNCHANGED <<srvr, wtgrp, tasks, hreq, exited, scheduledIn, hresp>>
    /\ UNCHANGED notServeVars

WaitMayReturn_Always(n) == TRUE

\* sync.WaitGroup.Wait blocks until the counter is zero.
WaitMayReturn(n) == n = 0

\* bknd.wtgrp.Wait() returns.
WaitReturns ==
    /\ ~exited
    /\ gpc = "Wait"
    /\ WaitMayReturn(wtgrp)
    /\ gpc' = "sendNil"
    /\ UNCHANGED <<mainpc, serveResult, srvr, wtgrp, tasks, hreq, exited, scheduledIn, hresp>>
    /\ UNCHANGED notServeVars

\* shutdownError <- nil meets err = <-shutdownError: serve() logs "server stopped"
\* and returns nil.
SendShutdownNil ==
    /\ ~exited
    /\ gpc = "sendNil"
    /\ mainpc = "recvShutdownError"
    /\ gpc' = "done"
    /\ mainpc' = "return"
    /\ serveResult' = "nil"
    /\ UNCHANGED <<srvr, wtgrp, tasks, hreq, exited, scheduledIn, hresp>>
    /\ UNCHANGED notServeVars

\* main() after serve() returned: os.Exit(1) on an error, else main returns.
\* Either ends the process and every goroutine with it.
ProcessExit ==
    /\ ~exited
    /\ mainpc = "return"
    /\ exited' = TRUE
    /\ UNCHANGED <<mainpc, serveResult, gpc, srvr, wtgrp, tasks, hreq, scheduledIn, hresp>>
    /\ UNCHANGED notServeVars

\* The server accepts a request and starts its handler.
AcceptRequest(r) ==
    /\ ~exited
    /\ srvr = "listening"
    /\ hreq[r] = "idle"
    /\ hreq' = [hreq EXCEPT ![r] = "handling"]
    /\ UNCHANGED <<mainpc, serveResult, gpc, srvr, wtgrp, tasks, exited, scheduledIn, hresp>>
    /\ UNCHANGED notServeVars

\* The handler of request r returns.
FinishRequest(r) ==
    /\ ~exited
    /\ hreq[r] = "handling"
    /\ hreq' = [hreq EXCEPT ![r] = "served"]
    /\ hresp' = [hresp EXCEPT ![r] = [status |-> 200, connection |-> "", error |-> ""]]
    /\ UNCHANGED <<mainpc, serveResult, gpc, srvr, wtgrp, tasks, exited, scheduledIn>>
    /\ UNCHANGED notServeVars

recoverPanic_NoRecover(r) ==
    /\ ~exited
    /\ hreq[r] = "handling"
    /\ hreq' = [hreq EXCEPT ![r] = "served"]
    /\ hresp' = [hresp EXCEPT ![r] = [NoHResp EXCEPT !.connection = "aborted"]]
    /\ UNCHANGED <<mainpc, serveResult, gpc, srvr, wtgrp, tasks, exited, scheduledIn>>
    /\ UNCHANGED notServeVars

\* A stage or the handler below recoverPanic panics before anything of the
\* response was written (every handler writes its response last); the deferred
\* function of recoverPanic recovers, sets Connection: close and calls
\* serverErrorResponse, and the handler returns.
recoverPanic(r) ==
    /\ ~exited
    /\ hreq[r] = "handling"
    /\ hreq' = [hreq EXCEPT ![r] = "served"]
    /\ hresp' = [hresp EXCEPT ![r] =
            [status |-> 500, connection |-> "close",
             error |-> "server encountered a problem and could not process your request"]]
    /\ UNCHANGED <<mainpc, serveResult, gpc, srvr, wtgrp, tasks, exited, scheduledIn>>
    /\ UNCHANGED notServeVars

background_NoAdd(r, t) ==
    /\ ~exited
    /\ hreq[r] = "handling"
    /\ tasks[t] = "unused"
    /\ tasks' = [tasks EXCEPT ![t] = "scheduled"]
    /\ scheduledIn' = [scheduledIn EXCEPT ![t] = gpc]
    /\ UNCHANGED <<mainpc, serveResult, gpc, srvr, wtgrp, hreq, exited, hresp>>
    /\ UNCHANGED notServeVars

\* bknd.background(fn) called by the handler of r: wtgrp.Add(1), then go func().
background(r, t) ==
    /\ ~exited
    /\ hreq[r] = "handling"
    /\ tasks[t] = "unused"
    /\ wtgrp' = wtgrp + 1
    /\ tasks' = [tasks EXCEPT ![t] = "scheduled"]
    /\ scheduledIn' = [scheduledIn EXCEPT ![t] = gpc]
    /\ UNCHANGED <<mainpc, serveResult, gpc, srvr, hreq, exited, hresp>>
    /\ UNCHANGED notServeVars

\* The goroutine of task t starts running fn().
TaskStart(t) ==
    /\ ~exited
    /\ tasks[t] = "scheduled"
    /\ tasks' = [tasks EXCEPT ![t] = "running"]
    /\ UNCHANGED <<mainpc, serveResult, gpc, srvr, wtgrp, hreq, exited, scheduledIn, hresp>>
    /\ UNCHANGED notServeVars

\* fn() returns; recover() finds nothing; the deferred wtgrp.Done() runs.
TaskReturns(t) ==
    /\ ~exited
    /\ tasks[t] = "running"
    /\ tasks' = [tasks EXCEPT ![t] = "finished"]
    /\ wtgrp' = wtgrp - 1
    /\ UNCHANGED <<mainpc, serveResult, gpc, srvr, hreq, exited, scheduledIn, hresp>>
    /\ UNCHANGED notServeVars

TaskPanics_NoRecover(t) ==
    /\ ~exited
    /\ tasks[t] = "running"
    /\ exited' = TRUE
    /\ UNCHANGED <<mainpc, serveResult, gpc, srvr, wtgrp, tasks, hreq, scheduledIn, hresp>>
    /\ UNCHANGED notServeVars

\* fn() panics; the deferred recover() logs it; the deferred wtgrp.Done() runs.
TaskPanics(t) ==
    /\ ~exited
    /\ tasks[t] = "running"
    /\ tasks' = [tasks EXCEPT ![t] = "recovered"]
    /\ wtgrp' = wtgrp - 1
    /\ UNCHANGED <<mainpc, serveResult, gpc, srvr, hreq, exited, scheduledIn, hresp>>
    /\ UNCHANGED notServeVars

NextServe ==
    \/ ListenAndServe
    \/ ListenAndServeFails
    \/ ListenAndServeClosed
    \/ ReceiveSignal
    \/ ShutdownCloseListeners
    \/ ShutdownReturnsNil
    \/ ShutdownTimesOut
    \/ SendShutdownErr
    \/ WaitReturns
    \/ SendShutdownNil
    \/ ProcessExit
    \/ \E r \in HttpReqs : AcceptRequest(r)
    \/ \E r \in HttpReqs : FinishRequest(r)
    \/ \E r \in HttpReqs : recoverPanic(r)
    \/ \E r \in HttpReqs, t \in TaskIds : background(r, t)
    \/ \E t \in TaskIds : TaskStart(t)
    \/ \E t \in TaskIds : TaskReturns(t)
    \/ \E t \in TaskIds : TaskPanics(t)

(***************************************************************************)
(* The movies table, MovieModel.Get / Update / Delete, updateMovieHandler   *)
(***************************************************************************)
MaxUpdateReqs == 2

MovieIds == {1}
UReqs == 1..MaxUpdateReqs
Titles == {"Alien", "Brazil"}
Years == {1979, 1985}
Runtimes == {117, 142}
GenreTable == {"scifi", "drama"}
NoMovie == [exists |-> FALSE]

MovieRow(t, y, rt, g) == [exists |-> TRUE, title |-> t, year |-> y, runtime |-> rt, genres |-> g]

\* A pointer field of a request body: Nil when the field is absent, else Ptr(v).
Nil == {}
Ptr(v) == {v}
Deref(p) == CHOOSE v \in p : TRUE

\* The request bodies of updateMovieHandler: every field is optional.
UpdateInputs ==
    { [Title |-> Ptr("Brazil"), Year |-> Nil, Runtime |-> Nil, Genres |-> Nil],
      [Title |-> Nil, Year |-> Ptr(1985), Runtime |-> Nil, Genres |-> Nil],
      [Title |-> Nil, Year |-> Nil, Runtime |-> Ptr(142), Genres |-> Ptr({"drama"})],
      [Title |-> Nil, Year |-> Nil, Runtime |-> Nil, Genres |-> Ptr({"scifi", "western"})],
      [Title |-> Ptr(""), Year |-> Nil, Runtime |-> Nil, Genres |-> Nil],
      [Title |-> Nil, Year |-> Nil, Runtime |-> Nil, Genres |-> Nil] }

\* rows: history, what RowsAffected returned to the request's Update (-1: not called).
IdleUReq == [pc |-> "idle", id |-> 0, movie |-> NoMovie, observed |-> 0, resp |-> 0, updates |-> 0,
             rows |-> -1]

\* One call of MovieModel.Update: pc is the statement it is at; movie the
\* argument; row and links what the transaction has written and not yet
\* committed (links "untouched" before the DELETE); locked, that the UPDATE
\* holds the row's lock; stmts, history, the statements it has executed;
\* result what the call returned.
NoTx == [pc |-> "idle", id |-> 0, movie |-> NoMovie, row |-> NoMovie, links |-> "untouched",
         locked |-> FALSE, stmts |-> 0, result |-> "none"]

\* The row of movie id is locked by a transaction that has updated it.
RowLocked(id) == \E r \in UReqs : txn[r].locked /\ txn[r].id = id

InitMovieVars ==
    /\ movies = [id \in MovieIds |-> MovieRow("Alien", 1979, 117, {"scifi"})]
    /\ commits = [id \in MovieIds |-> 0]
    /\ ureq = [r \in UReqs |-> IdleUReq]
    /\ clientFoundRows \in BOOLEAN
    /\ txn = [r \in UReqs |-> NoTx]

ParkMovieVars ==
    /\ movies = [id \in MovieIds |-> NoMovie]
    /\ commits = [id \in MovieIds |-> 0]
    /\ ureq = [r \in UReqs |-> IdleUReq]
    /\ clientFoundRows = FALSE
    /\ txn = [r \in UReqs |-> NoTx]

\* Movie.ApplyPartialUpdates: a field of the body that is present replaces the
\* fetched movie's.
ApplyPartialUpdates(m, in) ==
    [m EXCEPT !.title = IF in.Title # Nil THEN Deref(in.Title) ELSE @,
              !.year = IF in.Year # Nil THEN Deref(in.Year) ELSE @,
              !.runtime = IF in.Runtime # Nil THEN Deref(in.Runtime) ELSE @,
              !.genres = IF in.Genres # Nil THEN Deref(in.Genres) ELSE @]

\* ValidateMovie, on the values the inputs can produce.
ValidateMovie(m) ==
    /\ m.title # ""
    /\ m.year # 0 /\ m.year >= 1888
    /\ m.runtime > 0
    /\ Cardinality(m.genres) >= 1 /\ Cardinality(m.genres) <= 5

\* WHERE clause of the UPDATE statement of MovieModel.Update: "WHERE id = ?".
UpdateWhere(id, m) == movies[id].exists

\* res.RowsAffected() of the UPDATE: the rows matched, or with the driver's
\* default (clientFoundRows off) the rows whose columns actually changed.
RowsAffected(id, m) ==
    IF ~UpdateWhere(id, m) THEN 0
    ELSE IF clientFoundRows THEN 1
    ELSE IF movies[id].title = m.title /\ movies[id].runtime = m.runtime
            /\ movies[id].year = m.year THEN 0
    ELSE 1

UpdateOutcome_NoRowIsError(id, m, storeFails) ==
    IF RowsAffected(id, m) # 1 THEN "error"
    ELSE IF ~(m.genres \subseteq GenreTable) THEN "error"
    ELSE IF storeFails THEN "error"
    ELSE "ok"

\* Outcome of MovieModel.Update(ctx, m) as one transaction: "conflict" is
\* ErrEditConflict; "error" any other failure (unknown genre, store failure),
\* after which the deferred tx.Rollback() undoes the statements.
UpdateOutcome(id, m, storeFails) ==
    IF RowsAffected(id, m) # 1 THEN "conflict"
    ELSE IF ~(m.genres \subseteq GenreTable) THEN "error"
    ELSE IF storeFails THEN "error"
    ELSE "ok"

\* updateMovieHandler up to MovieModel.Get: 404 when there is no such row
\* (or the id does not parse), 500 when the store fails.
FetchForUpdate(r) ==
    /\ ureq[r].pc = "idle"
    /\ \E id \in MovieIds, storeFails \in BOOLEAN :
        ureq' = [ureq EXCEPT ![r] =
            IF storeFails THEN [@ EXCEPT !.pc = "done", !.id = id, !.resp = 500]
            ELSE IF ~movies[id].exists THEN [@ EXCEPT !.pc = "done", !.id = id, !.resp = 404]
            ELSE [@ EXCEPT !.pc = "fetched", !.id = id, !.movie = movies[id],
                           !.observed = commits[id]]]
    /\ UNCHANGED <<movies, commits, clientFoundRows, txn>>
    /\ UNCHANGED notMovieVars

\* updateMovieHandler from readJSON to the response: ApplyPartialUpdates,
\* ValidateMovie, then MovieModel.Update in its transaction.
UpdateMovie(r) ==
    /\ ureq[r].pc = "fetched"
    /\ \E in \in UpdateInputs, storeFails \in BOOLEAN :
        LET id == ureq[r].id
            m == ApplyPartialUpdates(ureq[r].movie, in)
            out == UpdateOutcome(id, m, storeFails)
        IN  IF ~ValidateMovie(m)
            THEN /\ ureq' = [ureq EXCEPT ![r].pc = "done", ![r].resp = 422]
                 /\ UNCHANGED <<movies, commits>>
            ELSE IF out = "ok"
            THEN /\ movies' = [movies EXCEPT ![id] = m]
                 /\ commits' = [commits EXCEPT ![id] = @ + 1]
                 /\ ureq' = [ureq EXCEPT ![r].pc = "done", ![r].resp = 200,
                                         ![r].movie = m, ![r].updates = @ + 1,
                                         ![r].rows = RowsAffected(id, m)]
            ELSE /\ ureq' = [ureq EXCEPT ![r].pc = "done", ![r].updates = @ + 1,
                                         ![r].rows = RowsAffected(id, m),
                                         ![r].resp = IF out = "conflict" THEN 409 ELSE 500]
                 /\ UNCHANGED <<movies, commits>>
    /\ UNCHANGED <<clientFoundRows, txn>>
    /\ UNCHANGED notMovieVars

\* deleteMovieHandler: MovieModel.Delete removes the row (and, by cascade, its links).
DeleteMovie(id) ==
    /\ movies[id].exists
    /\ ~RowLocked(id)
    /\ movies' = [movies EXCEPT ![id] = NoMovie]
    /\ UNCHANGED <<commits, ureq, clientFoundRows, txn>>
    /\ UNCHANGED notMovieVars

NextMovies ==
    \/ \E r \in UReqs : FetchForUpdate(r)
    \/ \E r \in UReqs : UpdateMovie(r)
    \/ \E id \in MovieIds : DeleteMovie(id)

(***************************************************************************)
(* MovieModel.Update statement by statement, inside its transaction        *)
(***************************************************************************)
\* The movies a caller hands to Update.
TxMovies ==
    {MovieRow(t, y, 117, g) : t \in Titles, y \in Years,
                              g \in {{"drama"}, {"scifi", "drama"}, {"scifi", "western"}}}

\* return with an error: the deferred tx.Rollback() discards what the
\* transaction wrote and releases its lock.
Rollback(t, err) ==
    [t EXCEPT !.pc = "returned", !.row = NoMovie, !.links = "untouched", !.locked = FALSE,
              !.result = err]

\* tx, err := mdl.DB.BeginTx(ctx, nil)
Update_BeginTx(r) ==
    /\ txn[r].pc = "idle"
    /\ \E id \in MovieIds, m \in TxMovies, fails \in BOOLEAN :
          txn' = [txn EXCEPT ![r] =
              IF fails THEN [@ EXCEPT !.pc = "returned", !.id = id, !.movie = m, !.result = "error"]
              ELSE [@ EXCEPT !.pc = "UPDATE", !.id = id, !.movie = m]]
    /\ UNCHANGED <<movies, commits, ureq, clientFoundRows>>
    /\ UNCHANGED notMovieVars

\* UPDATE movies SET title=?, runtime=?, year=? WHERE id = ? on tx, then
\* res.RowsAffected(): row != 1 returns ErrEditConflict. The statement waits
\* for the lock of a row another transaction has updated.
Update_ExecUpdate(r) ==
    /\ txn[r].pc = "UPDATE"
    /\ \E fails \in BOOLEAN :
          LET id == txn[r].id
              m == txn[r].movie
          IN  IF fails THEN txn' = [txn EXCEPT ![r] = Rollback(@, "error")]
              ELSE /\ ~RowLocked(id)
                   /\ txn' = [txn EXCEPT ![r] =
                         IF RowsAffected(id, m) # 1
                         THEN Rollback([@ EXCEPT !.stmts = @ + 1], "ErrEditConflict")
                         ELSE [@ EXCEPT !.pc = "SELECT", !.locked = TRUE, !.stmts = @ + 1,
                                        !.row = [movies[id] EXCEPT !.title = m.title,
                                                                   !.runtime = m.runtime,
                                                                   !.year = m.year]]]
    /\ UNCHANGED <<movies, commits, ureq, clientFoundRows>>
    /\ UNCHANGED notMovieVars

\* SELECT id, name FROM genres on tx, scanned into genreMap.
Update_SelectGenres(r) ==
    /\ txn[r].pc = "SELECT"
    /\ \E fails \in BOOLEAN :
          txn' = [txn EXCEPT ![r] = IF fails THEN Rollback(@, "error")
                                    ELSE [@ EXCEPT !.pc = "DELETE", !.stmts = @ + 1]]
    /\ UNCHANGED <<movies, commits, ureq, clientFoundRows>>
    /\ UNCHANGED notMovieVars

\* The DELETE run on the pool (mdl.DB) rather than on tx: it commits at once.
Update_DeleteLinks_OnDB(r) ==
    /\ txn[r].pc = "DELETE"
    /\ \E fails \in BOOLEAN :
          IF fails THEN /\ txn' = [txn EXCEPT ![r] = Rollback(@, "error")]
                        /\ UNCHANGED movies
          ELSE /\ txn' = [txn EXCEPT ![r] = [@ EXCEPT !.pc = "INSERT", !.links = {},
                                                       !.stmts = @ + 1]]
               /\ movies' = [movies EXCEPT ![txn[r].id].genres = {}]
    /\ UNCHANGED <<commits, ureq, clientFoundRows>>
    /\ UNCHANGED notMovieVars

\* DELETE FROM movie_genres WHERE movie_id = ? on tx.
Update_DeleteLinks(r) ==
    /\ txn[r].pc = "DELETE"
    /\ \E fails \in BOOLEAN :
          txn' = [txn EXCEPT ![r] = IF fails THEN Rollback(@, "error")
                                    ELSE [@ EXCEPT !.pc = "INSERT", !.links = {},
                                                   !.stmts = @ + 1]]
    /\ UNCHANGED <<movies, commits, ureq, clientFoundRows>>
    /\ UNCHANGED notMovieVars

\* One round of the loop over movie.Genres: a name missing from genreMap
\* returns "unknown genre", else INSERT INTO movie_genres on tx.
Update_InsertLink(r) ==
    /\ txn[r].pc = "INSERT"
    /\ \E genre \in txn[r].movie.genres \ txn[r].links, fails \in BOOLEAN :
          txn' = [txn EXCEPT ![r] =
              IF genre \notin GenreTable THEN Rollback(@, "error")
              ELSE IF fails THEN Rollback(@, "error")
              ELSE [@ EXCEPT !.links = @ \cup {genre}, !.stmts = @ + 1]]
    /\ UNCHANGED <<movies, commits, ureq, clientFoundRows>>
    /\ UNCHANGED notMovieVars

\* tx.Commit() after the loop: what the transaction wrote becomes the stored
\* row and its links, and Update returns nil; when Commit fails nothing is
\* stored and Update returns the error.
Update_Commit(r) ==
    /\ txn[r].pc = "INSERT"
    /\ txn[r].links = txn[r].movie.genres
    /\ \E fails \in BOOLEAN :
          IF fails THEN /\ txn' = [txn EXCEPT ![r] = Rollback(@, "error")]
                        /\ UNCHANGED <<movies, commits>>
          ELSE /\ movies' = [movies EXCEPT ![txn[r].id] = [txn[r].row EXCEPT !.genres = txn[r].links]]
               /\ commits' = [commits EXCEPT ![txn[r].id] = @ + 1]
               /\ txn' = [txn EXCEPT ![r] = [@ EXCEPT !.pc = "returned", !.locked = FALSE,
                                                       !.result = "nil"]]
    /\ UNCHANGED <<ureq, clientFoundRows>>
    /\ UNCHANGED notMovieVars

NextUpdateTx ==
    \/ \E r \in UReqs : Update_BeginTx(r)
    \/ \E r \in UReqs : Update_ExecUpdate(r)
    \/ \E r \in UReqs : Update_SelectGenres(r)
    \/ \E r \in UReqs : Update_DeleteLinks(r)
    \/ \E r \in UReqs : Update_InsertLink(r)
    \/ \E r \in UReqs : Update_Commit(r)
    \/ \E id \in MovieIds : DeleteMovie(id)

(***************************************************************************)
(***************************************************************************)
(* rateLimiter: the clients map, its mutex, the cleanup goroutine and the  *)
(* token bucket of golang.org/x/time/rate                                  *)
(***************************************************************************)
rps == 2
burst == 5
SleepSeconds == 60
StaleSeconds == 180

\* Resolution of the clock: ticks per refill interval (1/rps seconds).
TicksPerToken == 2
MaxTicks == 2
MaxMinutes == 3
MaxArrivals == 6
MaxOtherArrivals == 1
MaxLimReqs == 2

TicksPerSecond == rps * TicksPerToken
SleepTicks == SleepSeconds * TicksPerSecond
StaleTicks == StaleSeconds * TicksPerSecond
\* The zero time.Time of a client record whose lastSeen was never set.
ZeroTime == 0 - StaleTicks - 1

ClientKeys == {"10.0.0.5", "10.0.0.6"}
LReqs == 1..MaxLimReqs

NoClient == [present |-> FALSE]
\* History of a client key since its present record was made: the ticks since
\* then (counted up to one refill interval), the Allow calls and the admitted
\* ones; and whether an earlier record of the key was deleted by a sweep.
NoStats == [age |-> 0, seen |-> 0, admitted |-> 0, evicted |-> FALSE]

Min(a, b) == IF a < b THEN a ELSE b

InitLimVars ==
    /\ now = 0
    /\ mtx = "unlocked"
    /\ clients = [k \in ClientKeys |-> NoClient]
    /\ lreq = [r \in LReqs |-> [pc |-> "idle", ip |-> ""]]
    /\ sweeper = [pc |-> "Sleep", wake |-> SleepTicks]
    /\ stats = [k \in ClientKeys |-> NoStats]
    /\ limiterEnabled \in BOOLEAN
    /\ calls = <<>>

ParkLimVars ==
    /\ now = 0
    /\ mtx = "unlocked"
    /\ clients = [k \in ClientKeys |-> NoClient]
    /\ lreq = [r \in LReqs |-> [pc |-> "idle", ip |-> ""]]
    /\ sweeper = [pc |-> "Sleep", wake |-> SleepTicks]
    /\ stats = [k \in ClientKeys |-> NoStats]
    /\ limiterEnabled = FALSE
    /\ calls = <<>>

\* Time passes: by single ticks at first, later by whole minutes.
Tick ==
    /\ now < MaxTicks
    /\ now' = now + 1
    /\ stats' = [k \in ClientKeys |-> [stats[k] EXCEPT !.age = Min(@ + 1, TicksPerToken)]]
    /\ UNCHANGED <<mtx, clients, lreq, sweeper, limiterEnabled>>
    /\ UNCHANGED notLimVars

PassMinute ==
    /\ (now \div SleepTicks) < MaxMinutes
    /\ now' = now + SleepTicks
    /\ stats' = [k \in ClientKeys |-> [stats[k] EXCEPT !.age = TicksPerToken]]
    /\ UNCHANGED <<mtx, clients, lreq, sweeper, limiterEnabled>>
    /\ UNCHANGED notLimVars

MtxFree_NoMutex == TRUE

\* mtx.Lock() returns only when it finds the mutex unlocked.
MtxFree == mtx = "unlocked"

\* rate.NewLimiter(rate.Limit(rps), burst): a full bucket. Tokens are counted in
\* 1/TicksPerToken of a token, so that one tick refills one unit.
NewLimiter(t) == [tokens |-> burst * TicksPerToken, last |-> t]

Advance_NoRefill(lim, t) == lim.tokens

\* Limiter.advance: the tokens at time t, refilled at rps and capped at burst.
Advance(lim, t) == Min(burst * TicksPerToken, lim.tokens + (t - lim.last))

AllowOk_AnyFraction(lim, t) == Advance(lim, t) > 0

\* Limiter.Allow at time t: whether one whole token is there.
AllowOk(lim, t) == Advance(lim, t) - TicksPerToken >= 0

\* Limiter.Allow at time t: only an admitted event updates the bucket.
AfterAllow(lim, t) ==
    IF AllowOk(lim, t)
    THEN [tokens |-> Advance(lim, t) - TicksPerToken, last |-> t]
    ELSE lim

\* The requests of client ip that have entered the handler and not yet called Allow.
BeforeAllow(ip) ==
    {r \in LReqs : lreq[r].ip = ip /\ lreq[r].pc \in {"Lock", "lookup", "create", "stamp", "Allow"}}

\* How many requests a client sends to one record: the first client more than
\* burst, any other client a few.
ArrivalCap(ip) == IF ip = "10.0.0.5" THEN MaxArrivals ELSE MaxOtherArrivals

Arrive_FlagIgnored(r, ip) ==
    /\ lreq[r].pc = "idle"
    /\ stats[ip].seen + Cardinality(BeforeAllow(ip)) < ArrivalCap(ip)
    /\ lreq' = [lreq EXCEPT ![r] = [pc |-> "Lock", ip |-> ip]]
    /\ UNCHANGED <<now, mtx, clients, sweeper, stats, limiterEnabled>>
    /\ UNCHANGED notLimVars

\* A request enters the rateLimiter handler; with the limiter disabled it goes
\* straight to next.ServeHTTP.
Arrive(r, ip) ==
    /\ lreq[r].pc = "idle"
    /\ limiterEnabled => stats[ip].seen + Cardinality(BeforeAllow(ip)) < ArrivalCap(ip)
    /\ lreq' = [lreq EXCEPT ![r] = [pc |-> IF limiterEnabled THEN "Lock" ELSE "next",
                                    ip |-> ip]]
    /\ UNCHANGED <<now, mtx, clients, sweeper, stats, limiterEnabled>>
    /\ UNCHANGED notLimVars

\* mtx.Lock() in the handler.
Lock(r) ==
    /\ lreq[r].pc = "Lock"
    /\ MtxFree
    /\ mtx' = "locked"
    /\ lreq' = [lreq EXCEPT ![r].pc = "lookup"]
    /\ UNCHANGED <<now, clients, sweeper, stats, limiterEnabled>>
    /\ UNCHANGED notLimVars

\* if _, found := clients[ip]; !found
Lookup(r) ==
    /\ lreq[r].pc = "lookup"
    /\ lreq' = [lreq EXCEPT ![r].pc = IF clients[lreq[r].ip].present THEN "stamp" ELSE "create"]
    /\ UNCHANGED <<now, mtx, clients, sweeper, stats, limiterEnabled>>
    /\ UNCHANGED notLimVars

\* clients[ip] = &client{limiter: rate.NewLimiter(...)}
Create(r) ==
    /\ lreq[r].pc = "create"
    /\ LET ip == lreq[r].ip
       IN  /\ clients' = [clients EXCEPT ![ip] =
                    [present |-> TRUE, limiter |-> NewLimiter(now), lastSeen |-> ZeroTime]]
           /\ stats' = [stats EXCEPT ![ip] = IF clients[ip].present THEN @
                                             ELSE [NoStats EXCEPT !.evicted = stats[ip].evicted]]
    /\ lreq' = [lreq EXCEPT ![r].pc = "stamp"]
    /\ UNCHANGED <<now, mtx, sweeper, limiterEnabled>>
    /\ UNCHANGED notLimVars

\* lastSeen is written only for a request the bucket is about to admit.
Stamp_OnlyWhenAdmitted(r) ==
    /\ lreq[r].pc = "stamp"
    /\ LET ip == lreq[r].ip
       IN  IF clients[ip].present
           THEN /\ clients' = [clients EXCEPT ![ip].lastSeen =
                        IF AllowOk(clients[ip].limiter, now) THEN now ELSE @]
                /\ lreq' = [lreq EXCEPT ![r].pc = "Allow"]
           ELSE /\ lreq' = [lreq EXCEPT ![r].pc = "panic"]
                /\ UNCHANGED clients
    /\ UNCHANGED <<now, mtx, sweeper, stats, limiterEnabled>>
    /\ UNCHANGED notLimVars

\* clients[ip].lastSeen = time.Now(); on a missing record the nil pointer
\* dereference panics.
Stamp(r) ==
    /\ lreq[r].pc = "stamp"
    /\ LET ip == lreq[r].ip
       IN  IF clients[ip].present
           THEN /\ clients' = [clients EXCEPT ![ip].lastSeen = now]
                /\ lreq' = [lreq EXCEPT ![r].pc = "Allow"]
           ELSE /\ lreq' = [lreq EXCEPT ![r].pc = "panic"]
                /\ UNCHANGED clients
    /\ UNCHANGED <<now, mtx, sweeper, stats, limiterEnabled>>
    /\ UNCHANGED notLimVars

\* if !clients[ip].limiter.Allow() { ... }
Allow(r) ==
    /\ lreq[r].pc = "Allow"
    /\ LET ip == lreq[r].ip
       IN  IF clients[ip].present
           THEN LET ok == AllowOk(clients[ip].limiter, now)
                IN  /\ clients' = [clients EXCEPT ![ip].limiter = AfterAllow(@, now)]
                    /\ lreq' = [lreq EXCEPT ![r].pc = IF ok THEN "UnlockPass" ELSE "UnlockDeny"]
                    /\ stats' = [stats EXCEPT ![ip].seen = @ + 1,
                                              ![ip].admitted = IF ok THEN @ + 1 ELSE @]
           ELSE /\ lreq' = [lreq EXCEPT ![r].pc = "panic"]
                /\ UNCHANGED <<clients, stats>>
    /\ UNCHANGED <<now, mtx, sweeper, limiterEnabled>>
    /\ UNCHANGED notLimVars

UnlockDeny_Missing(r) ==
    /\ lreq[r].pc = "UnlockDeny"
    /\ lreq' = [lreq EXCEPT ![r].pc = "rateLimitExceededResponse"]
    /\ UNCHANGED <<now, mtx, clients, sweeper, stats, limiterEnabled>>
    /\ UNCHANGED notLimVars

\* mtx.Unlock() on the denied path, before the response is written.
UnlockDeny(r) ==
    /\ lreq[r].pc = "UnlockDeny"
    /\ mtx' = "unlocked"
    /\ lreq' = [lreq EXCEPT ![r].pc = "rateLimitExceededResponse"]
    /\ UNCHANGED <<now, clients, sweeper, stats, limiterEnabled>>
    /\ UNCHANGED notLimVars

\* bknd.rateLimitExceededResponse(w, r); return
RateLimitExceededResponse(r) ==
    /\ lreq[r].pc = "rateLimitExceededResponse"
    /\ lreq' = [lreq EXCEPT ![r] = [pc |-> "idle", ip |-> ""]]
    /\ UNCHANGED <<now, mtx, clients, sweeper, stats, limiterEnabled>>
    /\ UNCHANGED notLimVars

\* mtx.Unlock() on the admitted path.
UnlockPass(r) ==
    /\ lreq[r].pc = "UnlockPass"
    /\ mtx' = "unlocked"
    /\ lreq' = [lreq EXCEPT ![r].pc = "next"]
    /\ UNCHANGED <<now, clients, sweeper, stats, limiterEnabled>>
    /\ UNCHANGED notLimVars

\* next.ServeHTTP(w, r)
ServeNext(r) ==
    /\ lreq[r].pc = "next"
    /\ lreq' = [lreq EXCEPT ![r] = [pc |-> "idle", ip |-> ""]]
    /\ UNCHANGED <<now, mtx, clients, sweeper, stats, limiterEnabled>>
    /\ UNCHANGED notLimVars

\* The cleanup goroutine: time.Sleep(time.Minute) is over; mtx.Lock().
SweepLock ==
    /\ sweeper.pc = "Sleep"
    /\ now >= sweeper.wake
    /\ MtxFree
    /\ mtx' = "locked"
    /\ sweeper' = [sweeper EXCEPT !.pc = "range"]
    /\ UNCHANGED <<now, clients, lreq, stats, limiterEnabled>>
    /\ UNCHANGED notLimVars

Stale_AfterFourMinutes(clnt, t) == t - clnt.lastSeen > StaleTicks + SleepTicks

\* time.Since(clnt.lastSeen) > 3*time.Minute
Stale(clnt, t) == t - clnt.lastSeen > StaleTicks

\* for ip, clnt := range clients { if stale { delete(clients, ip) } }
SweepRange ==
    /\ sweeper.pc = "range"
    /\ LET gone == {k \in ClientKeys : clients[k].present /\ Stale(clients[k], now)}
       IN  /\ clients' = [k \in ClientKeys |-> IF k \in gone THEN NoClient ELSE clients[k]]
           /\ stats' = [k \in ClientKeys |-> IF k \in gone THEN [stats[k] EXCEPT !.evicted = TRUE]
                                              ELSE stats[k]]
    /\ sweeper' = [sweeper EXCEPT !.pc = "Unlock"]
    /\ UNCHANGED <<now, mtx, lreq, limiterEnabled>>
    /\ UNCHANGED notLimVars

\* mtx.Unlock() of the cleanup goroutine, then time.Sleep(time.Minute) again.
SweepUnlock ==
    /\ sweeper.pc = "Unlock"
    /\ mtx' = "unlocked"
    /\ sweeper' = [pc |-> "Sleep", wake |-> now + SleepTicks]
    /\ UNCHANGED <<now, clients, lreq, stats, limiterEnabled>>
    /\ UNCHANGED notLimVars

NextLimiter ==
    \/ Tick
    \/ PassMinute
    \/ \E r \in LReqs, ip \in ClientKeys : Arrive(r, ip)
    \/ \E r \in LReqs : Lock(r)
    \/ \E r \in LReqs : Lookup(r)
    \/ \E r \in LReqs : Create(r)
    \/ \E r \in LReqs : Stamp(r)
    \/ \E r \in LReqs : Allow(r)
    \/ \E r \in LReqs : UnlockDeny(r)
    \/ \E r \in LReqs : RateLimitExceededResponse(r)
    \/ \E r \in LReqs : UnlockPass(r)
    \/ \E r \in LReqs : ServeNext(r)
    \/ SweepLock
    \/ SweepRange
    \/ SweepUnlock

(***************************************************************************)
(* rateLimiter with the requests of one client handled one after another,  *)
(* over the first seconds after the server started (the cleanup goroutine  *)
(* is still in its first time.Sleep)                                       *)
(***************************************************************************)
MaxRefillTicks == 6
MaxCalls == 9

\* The client of the scenario.
RefillClient == "10.0.0.5"

\* Time passes by one tick.
Elapse ==
    /\ now < MaxRefillTicks
    /\ now + 1 < sweeper.wake
    /\ now' = now + 1
    /\ stats' = [k \in ClientKeys |-> [stats[k] EXCEPT !.age = Min(@ + 1, TicksPerToken)]]
    /\ UNCHANGED <<mtx, clients, lreq, sweeper, limiterEnabled, calls>>
    /\ UNCHANGED <<serveVars, movieVars, authVars, actVars, pipeVars, regVars>>

\* The handler of rateLimiter run from start to end for one request of client ip
\* while no other request is in it: Lock, lookup or create, lastSeen, Allow,
\* Unlock, then the 429 response or next.ServeHTTP.
HandleRequest(ip) ==
    /\ Len(calls) < MaxCalls
    /\ mtx = "unlocked"
    /\ \A r \in LReqs : lreq[r].pc = "idle"
    /\ IF limiterEnabled
       THEN LET found == clients[ip].present
                clnt == IF found THEN clients[ip]
                        ELSE [present |-> TRUE, limiter |-> NewLimiter(now), lastSeen |-> ZeroTime]
                ok == AllowOk(clnt.limiter, now)
                hist == IF found THEN stats[ip] ELSE [NoStats EXCEPT !.evicted = stats[ip].evicted]
            IN  /\ clients' = [clients EXCEPT ![ip] =
                        [clnt EXCEPT !.lastSeen = now, !.limiter = AfterAllow(@, now)]]
                /\ stats' = [stats EXCEPT ![ip] =
                        [hist EXCEPT !.seen = @ + 1, !.admitted = IF ok THEN @ + 1 ELSE @]]
                /\ calls' = Append(calls, [t |-> now, next |-> ok])
       ELSE /\ calls' = Append(calls, [t |-> now, next |-> TRUE])
            /\ UNCHANGED <<clients, stats>>
    /\ UNCHANGED <<now, mtx, lreq, sweeper, limiterEnabled>>
    /\ UNCHANGED <<serveVars, movieVars, authVars, actVars, pipeVars, regVars>>

NextRefill ==
    \/ Elapse
    \/ HandleRequest(RefillClient)

(***************************************************************************)
(* users, tokens and permissions; authenticate and the chain               *)
(* requireAuthenticatedUser -> requireActivatedUser -> requirePermission   *)
(***************************************************************************)
TokenLength == 26
AuthTokenTTL == 360

MaxIssued == 2
MaxHourTicks == 1
MaxTTLJumps == 1
MaxActReqs == 2
MaxPipeReqs == 2
MaxRegReqs == 2
MaxCredReqs == 2
MaxWriterCalls == 2
\* 3*24*time.Hour, the lifetime of an activation token, in hours.
ActivationTTL == 72

ScopeActivation == "activation"
ScopeAuthentication == "authentication"
Scopes == {ScopeActivation, ScopeAuthentication}
UserIds == {"u1", "u2"}
PermissionCodes == {"user", "admin", "moderator"}
\* Times to live a token is issued with, in hours.
TTLs == {1, AuthTokenTTL}

\* Strings are sequences of characters.
Rep(c, n) == [i \in 1..n |-> c]
Alphabet == <<" ", "A", "B", "C", "D", "a", "b", "c", "e", "i", "r", "s">>
CharCode(c) == CHOOSE i \in 1..Len(Alphabet) : Alphabet[i] = c

PlainA == Rep("A", TokenLength)
PlainB == Rep("B", TokenLength)
PlainC == Rep("C", TokenLength)
ShortToken == Rep("A", TokenLength - 1)
\* The plaintexts generateToken can draw; PlainC is well formed but never drawn.
IssuablePlainTexts == {PlainA, PlainB}

Bearer == <<"B", "e", "a", "r", "e", "r">>
\* The Authorization headers a request may carry; <<>> is the absent header.
AuthHeaders ==
    { <<>>,
      Bearer \o <<" ">> \o PlainA,
      Bearer \o <<" ">> \o PlainB,
      Bearer \o <<" ">> \o PlainC,
      Bearer \o <<" ">> \o ShortToken,
      Bearer \o <<" ">>,
      Bearer,
      Bearer \o <<" ", " ">> \o PlainA,
      Bearer \o <<" ">> \o Rep("A", 3) \o <<" ">> \o Rep("B", 3),
      <<"B", "a", "s", "i", "c", " ">> \o PlainA,
      <<"b", "e", "a", "r", "e", "r", " ">> \o PlainA }

\* sha256.Sum256([]byte(plainTxt)): a digest of the characters, injective on the
\* strings above and never one of them.
RECURSIVE Digest(_, _)
Digest(str, h) ==
    IF str = <<>> THEN h
    ELSE Digest(Tail(str), (h * 31 + CharCode(Head(str))) % 65521)

\* The digests of the strings that are ever hashed, computed once.
HashedStrings == {PlainA, PlainB, PlainC, ShortToken}
Sum256 ==
    LET digits == <<"0", "1", "2", "3", "4", "5", "6", "7",
                    "8", "9", "a", "b", "c", "d", "e", "f">>
        Bytes(n) == <<digits[((n \div 4096) % 16) + 1], digits[((n \div 256) % 16) + 1],
                      digits[((n \div 16) % 16) + 1], digits[(n % 16) + 1]>>
    IN  [str \in HashedStrings |-> Bytes(Digest(str, 7))]

\* The digest as bytes, here four hexadecimal digits.
Sha256(plainTxt) == Sum256[plainTxt]

\* data.AnonymousUser = &User{}: one distinguished pointer. Users read from the
\* store are fresh values, whatever their fields.
AnonymousUser == [ptr |-> "AnonymousUser", Id |-> "", Activated |-> FALSE]
NilUser == [ptr |-> "nil", Id |-> "", Activated |-> FALSE]
ScannedUser(u) == [ptr |-> "scanned", Id |-> u, Activated |-> users[u].activated]

\* User.IsAnonymous: usr == AnonymousUser, a pointer comparison.
IsAnonymous(usr) == usr.ptr = AnonymousUser.ptr

\* Permissions.Include
Include(perms, code) == code \in perms

NoResponse == [status |-> 0, error |-> "", challenge |-> FALSE]
\* One request: where it is, its Authorization header, the permission code of
\* its route, the links still to run, the user in its context, the response,
\* and what has been evaluated for it so far (err of GetForToken, the fetched
\* permissions, the calls in order).
IdleAReq == [pc |-> "idle", header |-> <<>>, code |-> "", chain |-> <<>>,
             user |-> NilUser, resp |-> NoResponse, err |-> "", perms |-> {},
             log |-> <<>>]

\* One request on its way through enableCORS and requestMetrics: its Origin,
\* method and Access-Control-Request-Method; the headers and the status of the
\* response (0: nothing written yet); the metricsResponseWriter made for it;
\* the calls it made on the writer; whether the next handler of enableCORS ran.
PReqs == 1..MaxPipeReqs
Statuses == {200, 404, 500}
NoHeaders == [vary |-> {}, allowOrigin |-> "", allowMethods |-> "", maxAge |-> "",
              allowHeaders |-> "", connection |-> ""]
IdlePReq == [pc |-> "idle", origin |-> "", method |-> "", acrm |-> "",
             header |-> NoHeaders, status |-> 0,
             mrw |-> [statusCode |-> 0, headerWritten |-> FALSE],
             first |-> 0, calls |-> 0, next |-> FALSE]
\* expvar: requests_received, responses_sent, responses_sent_by_status
NoMetrics == [requests_received |-> 0, responses_sent |-> 0,
              responses_sent_by_status |-> [c \in Statuses |-> 0]]

\* One request to PUT /v1/users/activated: where the handler stands, the token of
\* its body, the user GetForToken returned, the response, and the users whose
\* activation had been answered 200 when the request arrived.
ActReqs == 1..MaxActReqs
IdleVReq == [pc |-> "idle", token |-> <<>>, user |-> NilUser, resp |-> NoResponse,
             err |-> "", after |-> {}]

\* One request to POST /v1/users: where registerUserHandler stands, the email
\* of its body, the id InsertUser gave the user, the calls that have succeeded
\* (history), how often background was called (history), the goroutine of the
\* welcome email, its state when the 202 was written (history), whether SendEmail
\* failed, and the response.
RegReqs == 1..MaxRegReqs
IdleRReq == [pc |-> "idle", email |-> "", user |-> "", succeeded |-> {}, scheduled |-> 0,
             task |-> "none", taskAtResp |-> "", mailErr |-> FALSE, resp |-> NoResponse,
             late500 |-> FALSE]

\* One request to POST /v1/tokens/authentication: where createAuthTokenHandler
\* stands, its credentials, the user GetByEmail returned, the token it was
\* given, and the response.
CredReqs == 1..MaxCredReqs
IdleCReq == [pc |-> "idle", email |-> "", password |-> "", user |-> "", token |-> <<>>,
             err |-> "", resp |-> NoResponse]

InitAuthVars ==
    /\ clock = 0
    /\ users = [u \in UserIds |-> [activated |-> (u = "u1")]]
    /\ permissions = [u \in UserIds |-> IF u = "u1" THEN {"user"} ELSE {"user", "admin"}]
    /\ tokens = {}
    /\ issued = {}
    /\ areq = IdleAReq
    /\ vreq = [r \in ActReqs |-> IdleVReq]
    /\ activatedOk = {}
    /\ preq = [r \in PReqs |-> IdlePReq]
    /\ metrics = NoMetrics
    /\ rreq = [r \in RegReqs |-> IdleRReq]
    /\ creq = [r \in CredReqs |-> IdleCReq]

ParkAuthVars ==
    /\ clock = 0
    /\ users = [u \in UserIds |-> [activated |-> FALSE]]
    /\ permissions = [u \in UserIds |-> {}]
    /\ tokens = {}
    /\ issued = {}
    /\ areq = IdleAReq
    /\ vreq = [r \in ActReqs |-> IdleVReq]
    /\ activatedOk = {}
    /\ preq = [r \in PReqs |-> IdlePReq]
    /\ metrics = NoMetrics
    /\ rreq = [r \in RegReqs |-> IdleRReq]
    /\ creq = [r \in CredReqs |-> IdleCReq]

\* Time passes: by an hour at first, later by the lifetime of an authentication token.
TickHour ==
    /\ clock < MaxHourTicks
    /\ clock' = clock + 1
    /\ UNCHANGED <<users, permissions, tokens, issued, areq>>
    /\ UNCHANGED notAuthVars

PassTTL ==
    /\ (clock \div AuthTokenTTL) < MaxTTLJumps
    /\ clock' = clock + AuthTokenTTL
    /\ UNCHANGED <<users, permissions, tokens, issued, areq>>
    /\ UNCHANGED notAuthVars

generateToken_NoTTL(userId, ttl, scope, plainTxt) ==
    [PlainText |-> plainTxt, Hash |-> Sha256(plainTxt), UserId |-> userId,
     Expiry |-> clock, Scope |-> scope]

\* generateToken: a random plaintext, its digest, the expiry time.Now().Add(ttl).
generateToken(userId, ttl, scope, plainTxt) ==
    [PlainText |-> plainTxt, Hash |-> Sha256(plainTxt), UserId |-> userId,
     Expiry |-> clock + ttl, Scope |-> scope]

TokenRow_PlainTextAsHash(token) ==
    [hash |-> token.PlainText, user_id |-> token.UserId, expiry |-> token.Expiry, scope |-> token.Scope]

\* TokenModel.Insert: INSERT INTO tokens (hash, user_id, expiry, scope)
TokenRow(token) ==
    [hash |-> token.Hash, user_id |-> token.UserId, expiry |-> token.Expiry, scope |-> token.Scope]

\* TokenModel.NewToken(ctx, userId, ttl, scope): generateToken, then Insert.
\* The random bytes are fresh: no plaintext is drawn twice.
NewToken(userId, ttl, scope) ==
    /\ Cardinality(issued) < MaxIssued
    /\ \E plainTxt \in IssuablePlainTexts \ {t.PlainText : t \in issued} :
        LET token == generateToken(userId, ttl, scope, plainTxt)
        IN  /\ tokens' = tokens \cup {TokenRow(token)}
            /\ issued' = issued \cup {token}
    /\ UNCHANGED <<clock, users, permissions, areq>>
    /\ UNCHANGED notAuthVars

DeleteAllForUser_AnyScope(scope, userId) ==
    /\ \E t \in tokens : t.scope = scope /\ t.user_id = userId
    /\ tokens' = {t \in tokens : t.user_id # userId}
    /\ UNCHANGED <<clock, users, permissions, issued, areq>>
    /\ UNCHANGED notAuthVars

\* TokenModel.DeleteAllForUser: DELETE FROM tokens WHERE scope=? AND user_id=?
DeleteAllForUser(scope, userId) ==
    /\ \E t \in tokens : t.scope = scope /\ t.user_id = userId
    /\ tokens' = {t \in tokens : ~(t.scope = scope /\ t.user_id = userId)}
    /\ UNCHANGED <<clock, users, permissions, issued, areq>>
    /\ UNCHANGED notAuthVars

TokenRowMatches_AnyScope(t, hash, scope, t0) == t.hash = hash /\ t.expiry > t0

\* WHERE t.hash = ? AND t.scope = ? AND t.expiry > ?   (with time.Now())
TokenRowMatches(t, hash, scope, t0) == t.hash = hash /\ t.scope = scope /\ t.expiry > t0

\* The errors a statement sent to the store may end with besides its own
\* sentinels: the deadline of its context passed, its context was cancelled,
\* anything else (connection lost, malformed row).
StoreErrors == {"context.DeadlineExceeded", "context.Canceled", "store failure"}

\* UserModel.GetForToken(scope, plainTxt): what the call may return. QueryRow
\* yields the first row of the join, ErrRecordNotFound stands for sql.ErrNoRows,
\* and the query itself may fail (deadline, connection).
GetForToken(scope, plainTxt) ==
    LET rows == {t \in tokens : /\ TokenRowMatches(t, Sha256(plainTxt), scope, clock)
                                /\ t.user_id \in UserIds}
    IN  {[user |-> NilUser, err |-> e] : e \in StoreErrors}
        \cup (IF rows = {} THEN {[user |-> NilUser, err |-> "ErrRecordNotFound"]}
              ELSE {[user |-> ScannedUser(t.user_id), err |-> "nil"] : t \in rows})

\* PermissionModel.GetAllForUser(ctx, userId): the codes granted, or a failure.
GetAllForUser(userId) ==
    {[permissions |-> {}, err |-> e] : e \in StoreErrors}
    \cup {[permissions |-> IF userId \in UserIds THEN permissions[userId] ELSE {},
           err |-> "nil"]}

\* strings.SplitN(authHeader, " ", 2)
RECURSIVE IndexOfSpace(_, _)
IndexOfSpace(str, i) ==
    IF i > Len(str) THEN 0
    ELSE IF str[i] = " " THEN i
    ELSE IndexOfSpace(str, i + 1)

SplitN2(str) ==
    LET i == IndexOfSpace(str, 1)
    IN  IF i = 0 THEN <<str>>
        ELSE <<SubSeq(str, 1, i - 1), SubSeq(str, i + 1, Len(str))>>

HeaderMalformed_AnyScheme(headerParts) == Len(headerParts) # 2

\* len(headerParts) != 2 || headerParts[0] != "Bearer"
HeaderMalformed(headerParts) == Len(headerParts) # 2 \/ headerParts[1] # Bearer

ValidateTokenPlainText_NonEmptyOnly(plainTxt) == plainTxt # <<>>

\* data.ValidateTokenPlainText: non-empty and exactly 26 characters long.
ValidateTokenPlainText(plainTxt) == plainTxt # <<>> /\ Len(plainTxt) = TokenLength

\* The responses of the error helpers.
invalidAuthTokenResponse ==
    [status |-> 401, error |-> "invalid or missing authentication token!", challenge |-> TRUE]
authRequiredResponse ==
    [status |-> 401, error |-> "you must be authenticated to access this resource", challenge |-> FALSE]
inactiveAccountResponse ==
    [status |-> 403, error |-> "your account must be activated to access this resource", challenge |-> FALSE]
accessNotPermittedResponse ==
    [status |-> 403, error |-> "you do not have necessary permissions to access this resource", challenge |-> FALSE]
serverErrorResponse ==
    [status |-> 500, error |-> "server encountered a problem and could not process your request", challenge |-> FALSE]
handlerResponse == [status |-> 200, error |-> "", challenge |-> FALSE]

NoHeader_OrOtherScheme(authHeader) == authHeader = <<>> \/ SplitN2(authHeader)[1] # Bearer

\* authHeader == ""
NoHeader(authHeader) == authHeader = <<>>

\* authenticate: what it may do with a request carrying authHeader; "next" with
\* the user it sets in the request context, or a response.
authenticate(authHeader) ==
    IF NoHeader(authHeader)
    THEN {[do |-> "next", user |-> AnonymousUser, resp |-> NoResponse, err |-> ""]}
    ELSE LET headerParts == SplitN2(authHeader)
         IN  IF HeaderMalformed(headerParts)
             THEN {[do |-> "respond", user |-> NilUser, resp |-> invalidAuthTokenResponse,
                    err |-> ""]}
             ELSE IF ~ValidateTokenPlainText(headerParts[2])
             THEN {[do |-> "respond", user |-> NilUser, resp |-> invalidAuthTokenResponse,
                    err |-> ""]}
             ELSE {IF got.err = "nil"
                       THEN [do |-> "next", user |-> got.user, resp |-> NoResponse,
                             err |-> got.err]
                   ELSE IF got.err = "ErrRecordNotFound"
                       THEN [do |-> "respond", user |-> NilUser,
                             resp |-> invalidAuthTokenResponse, err |-> got.err]
                   ELSE [do |-> "respond", user |-> NilUser,
                         resp |-> serverErrorResponse, err |-> got.err]
                   : got \in GetForToken(ScopeAuthentication, headerParts[2])}

\* The handlers as the chain of links a request runs through, outermost first.
requireAuthenticatedUser(next) == <<"requireAuthenticatedUser">> \o next

requireActivatedUser_Unwrapped(next) == <<"requireActivatedUser">> \o next

\* requireActivatedUser returns bknd.requireAuthenticatedUser(fn).
requireActivatedUser(next) == requireAuthenticatedUser(<<"requireActivatedUser">> \o next)

requirePermission_SkipActivated(next) == requireAuthenticatedUser(<<"requirePermission">> \o next)

\* requirePermission returns bknd.requireActivatedUser(fn).
requirePermission(next) == requireActivatedUser(<<"requirePermission">> \o next)

\* The routes: "" is a route without a gate, the others are wrapped with
\* requirePermission(code, handler).
Routes == {""} \cup PermissionCodes

\* A request arrives.
ReceiveRequest(authHeader, code) ==
    /\ areq.pc = "idle"
    /\ areq' = [IdleAReq EXCEPT !.pc = "authenticate", !.header = authHeader,
                                !.code = code,
                                !.chain = IF code = "" THEN <<"next">>
                                          ELSE requirePermission(<<"next">>)]
    /\ UNCHANGED <<clock, users, permissions, tokens, issued>>
    /\ UNCHANGED notAuthVars

\* The response has been written and the connection serves another request.
FinishResponse ==
    /\ areq.pc = "done"
    /\ areq' = IdleAReq
    /\ UNCHANGED <<clock, users, permissions, tokens, issued>>
    /\ UNCHANGED notAuthVars

\* The authenticate middleware runs.
Authenticate ==
    /\ areq.pc = "authenticate"
    /\ \E out \in authenticate(areq.header) :
        areq' = IF out.do = "next"
                THEN [areq EXCEPT !.pc = "chain", !.user = out.user, !.err = out.err,
                                  !.log = Append(@, "contextSetUser")]
                ELSE [areq EXCEPT !.pc = "done", !.resp = out.resp, !.err = out.err]
    /\ UNCHANGED <<clock, users, permissions, tokens, issued>>
    /\ UNCHANGED notAuthVars

\* The link requireAuthenticatedUser runs.
RequireAuthenticatedUser ==
    /\ areq.pc = "chain" /\ Head(areq.chain) = "requireAuthenticatedUser"
    /\ areq' = IF IsAnonymous(areq.user)
               THEN [areq EXCEPT !.pc = "done", !.resp = authRequiredResponse,
                                 !.log = Append(@, "IsAnonymous")]
               ELSE [areq EXCEPT !.chain = Tail(@), !.log = Append(@, "IsAnonymous")]
    /\ UNCHANGED <<clock, users, permissions, tokens, issued>>
    /\ UNCHANGED notAuthVars

\* The link requireActivatedUser runs.
RequireActivatedUser ==
    /\ areq.pc = "chain" /\ Head(areq.chain) = "requireActivatedUser"
    /\ areq' = IF ~areq.user.Activated
               THEN [areq EXCEPT !.pc = "done", !.resp = inactiveAccountResponse,
                                 !.log = Append(@, "Activated")]
               ELSE [areq EXCEPT !.chain = Tail(@), !.log = Append(@, "Activated")]
    /\ UNCHANGED <<clock, users, permissions, tokens, issued>>
    /\ UNCHANGED notAuthVars

\* The link of requirePermission runs: GetAllForUser, then Include.
RequirePermission ==
    /\ areq.pc = "chain" /\ Head(areq.chain) = "requirePermission"
    /\ \E got \in GetAllForUser(areq.user.Id) :
        areq' = IF got.err # "nil"
                THEN [areq EXCEPT !.pc = "done", !.resp = serverErrorResponse,
                                  !.err = got.err, !.log = Append(@, "GetAllForUser")]
                ELSE IF ~Include(got.permissions, areq.code)
                THEN [areq EXCEPT !.pc = "done", !.resp = accessNotPermittedResponse,
                                  !.perms = got.permissions,
                                  !.log = @ \o <<"GetAllForUser", "Include">>]
                ELSE [areq EXCEPT !.chain = Tail(@), !.perms = got.permissions,
                                  !.log = @ \o <<"GetAllForUser", "Include">>]
    /\ UNCHANGED <<clock, users, permissions, tokens, issued>>
    /\ UNCHANGED notAuthVars

\* The wrapped handler runs.
ServeHandler ==
    /\ areq.pc = "chain" /\ Head(areq.chain) = "next"
    /\ areq' = [areq EXCEPT !.pc = "done", !.chain = Tail(@), !.resp = handlerResponse,
                            !.log = Append(@, "next")]
    /\ UNCHANGED <<clock, users, permissions, tokens, issued>>
    /\ UNCHANGED notAuthVars

NextAuth ==
    \/ TickHour
    \/ PassTTL
    \/ \E u \in UserIds, ttl \in TTLs, scope \in Scopes : NewToken(u, ttl, scope)
    \/ \E u \in UserIds, scope \in Scopes : DeleteAllForUser(scope, u)
    \/ \E h \in AuthHeaders, code \in Routes : ReceiveRequest(h, code)
    \/ FinishResponse
    \/ Authenticate
    \/ RequireAuthenticatedUser
    \/ RequireActivatedUser
    \/ RequirePermission
    \/ ServeHandler

(***************************************************************************)
(* registerUserHandler's activation token and activateUserHandler: a        *)
(* lookup, an update and a delete, each its own statement, no transaction. *)
(***************************************************************************)
TokenInputs == {PlainA, PlainB, PlainC, ShortToken, <<>>}

failedValidationResponse(errs) == [status |-> 422, error |-> errs, challenge |-> FALSE]
deadlineExceededResponse ==
    [status |-> 504, error |-> "deadline exceeded, please try after a few seconds", challenge |-> FALSE]

commonErrors_CanceledAnswered(err) ==
    IF err = "context.DeadlineExceeded" THEN deadlineExceededResponse
    ELSE serverErrorResponse

\* commonErrors: 504 for an exceeded deadline, nothing for a cancelled request,
\* the 500 of serverErrorResponse for every other error.
commonErrors(err) ==
    IF err = "context.DeadlineExceeded" THEN deadlineExceededResponse
    ELSE IF err = "context.Canceled" THEN NoResponse
    ELSE serverErrorResponse

\* registerUserHandler, after InsertUser and AddForUser:
\* NewToken(ctx, user.Id, 3*24*time.Hour, data.ScopeActivation), one per new user.
registerUserHandler(u) ==
    /\ ~users[u].activated
    /\ ~\E token \in issued : token.UserId = u
    /\ NewToken(u, ActivationTTL, ScopeActivation)

\* activateUserHandler up to the lookup: readJSON, ValidateTokenPlainText.
activateUserHandler_Validate(r, plainTxt) ==
    /\ vreq[r].pc = "idle"
    /\ vreq' = [vreq EXCEPT ![r] =
          IF ValidateTokenPlainText(plainTxt)
          THEN [@ EXCEPT !.pc = "GetForToken", !.token = plainTxt, !.after = activatedOk]
          ELSE [@ EXCEPT !.pc = "done", !.token = plainTxt, !.after = activatedOk,
                         !.resp = failedValidationResponse(
                                    IF plainTxt = <<>> THEN "must be provided"
                                    ELSE "must be 26 characters long")]]
    /\ UNCHANGED <<activatedOk, authVars>>
    /\ UNCHANGED notAuthActVars

\* GetForToken(ctx, data.ScopeActivation, input.TokenPlainText) and user.Activated = true
activateUserHandler_GetForToken(r) ==
    /\ vreq[r].pc = "GetForToken"
    /\ \E got \in GetForToken(ScopeActivation, vreq[r].token) :
          IF got.err = "nil"
          THEN vreq' = [vreq EXCEPT ![r] = [@ EXCEPT !.pc = "UpdateUser", !.err = got.err,
                                                     !.user = [got.user EXCEPT !.Activated = TRUE]]]
          ELSE IF got.err = "ErrRecordNotFound"
          THEN vreq' = [vreq EXCEPT ![r] = [@ EXCEPT !.pc = "done", !.err = got.err,
                          !.resp = failedValidationResponse("invalid or expired activation token")]]
          ELSE vreq' = [vreq EXCEPT ![r] = [@ EXCEPT !.pc = "done", !.err = got.err,
                                                     !.resp = commonErrors(got.err)]]
    /\ UNCHANGED <<activatedOk, authVars>>
    /\ UNCHANGED notAuthActVars

\* res.RowsAffected() of UserModel.UpdateUser's UPDATE ... WHERE id = ?: the row
\* matched, or with the driver's default the row whose columns changed.
UserRowsAffected(user) ==
    IF user.Id \notin UserIds THEN 0
    ELSE IF clientFoundRows THEN 1
    ELSE IF users[user.Id].activated = user.Activated THEN 0
    ELSE 1

\* UserModel.UpdateUser: the statement fails, or changes no row
\* (ErrRecordNotFound), or stores the user. The handler answers every error of
\* it through commonErrors (the one it names, ErrEditConflict, is never returned).
activateUserHandler_UpdateUser(r) ==
    /\ vreq[r].pc = "UpdateUser"
    /\ \/ /\ \E err \in StoreErrors :
                vreq' = [vreq EXCEPT ![r] = [@ EXCEPT !.pc = "done", !.err = err,
                                                      !.resp = commonErrors(err)]]
          /\ UNCHANGED users
       \/ /\ UserRowsAffected(vreq[r].user) = 0
          /\ vreq' = [vreq EXCEPT ![r] = [@ EXCEPT !.pc = "done", !.err = "ErrRecordNotFound",
                                                    !.resp = commonErrors("ErrRecordNotFound")]]
          /\ UNCHANGED users
       \/ /\ UserRowsAffected(vreq[r].user) > 0
          /\ users' = [users EXCEPT ![vreq[r].user.Id].activated = vreq[r].user.Activated]
          /\ vreq' = [vreq EXCEPT ![r] = [@ EXCEPT !.pc = "DeleteAllForUser"]]
    /\ UNCHANGED <<activatedOk, clock, permissions, tokens, issued, areq>>
    /\ UNCHANGED notAuthActVars

activateUserHandler_DeleteAllForUser_Skipped(r) ==
    /\ vreq[r].pc = "DeleteAllForUser"
    /\ vreq' = [vreq EXCEPT ![r] = [@ EXCEPT !.pc = "done", !.resp = handlerResponse]]
    /\ activatedOk' = activatedOk \cup {vreq[r].user.Id}
    /\ UNCHANGED <<clock, users, permissions, tokens, issued, areq>>
    /\ UNCHANGED notAuthActVars

\* Tokens.DeleteAllForUser(ctx, data.ScopeActivation, user.Id), then
\* writeJSON(w, http.StatusOK, envelope{"user": user}, nil).
activateUserHandler_DeleteAllForUser(r) ==
    /\ vreq[r].pc = "DeleteAllForUser"
    /\ \/ /\ \E err \in StoreErrors :
                vreq' = [vreq EXCEPT ![r] = [@ EXCEPT !.pc = "done", !.err = err,
                                                      !.resp = commonErrors(err)]]
          /\ UNCHANGED <<tokens, activatedOk>>
       \/ /\ tokens' = {t \in tokens :
                            ~(t.scope = ScopeActivation /\ t.user_id = vreq[r].user.Id)}
          /\ vreq' = [vreq EXCEPT ![r] = [@ EXCEPT !.pc = "done", !.resp = handlerResponse]]
          /\ activatedOk' = activatedOk \cup {vreq[r].user.Id}
    /\ UNCHANGED <<clock, users, permissions, issued, areq>>
    /\ UNCHANGED notAuthActVars

NextActivate ==
    \/ TickHour
    \/ PassTTL
    \/ \E u \in UserIds : registerUserHandler(u)
    \/ \E r \in ActReqs, plainTxt \in TokenInputs : activateUserHandler_Validate(r, plainTxt)
    \/ \E r \in ActReqs : activateUserHandler_GetForToken(r)
    \/ \E r \in ActReqs : activateUserHandler_UpdateUser(r)
    \/ \E r \in ActReqs : activateUserHandler_DeleteAllForUser(r)

(***************************************************************************)
(* enableCORS and requestMetrics with its metricsResponseWriter, in the     *)
(* order recoverPanic, enableCORS, requestMetrics, handler                  *)
(***************************************************************************)
\* bknd.config.cors.allowedOrigins
allowedOrigins == {"https://a.example", "https://b.example"}
Origins == {"", "https://a.example", "https://evil.example"}
Methods == {"GET", "OPTIONS"}
RequestMethods == {"", "PUT"}

\* A request arrives at enableCORS.
PipeReceive(r, origin, method, acrm) ==
    /\ preq[r].pc = "idle"
    /\ preq' = [preq EXCEPT ![r] = [IdlePReq EXCEPT !.pc = "enableCORS", !.origin = origin,
                                                    !.method = method, !.acrm = acrm]]
    /\ UNCHANGED metrics
    /\ UNCHANGED notPipeVars

enableCORS_AnyOrigin(r) ==
    /\ preq[r].pc = "enableCORS"
    /\ LET q == preq[r]
           vary == {"Origin", "Access-Control-Request-Method"}
       IN  preq' = [preq EXCEPT ![r] =
             IF q.origin = ""
             THEN [q EXCEPT !.header.vary = vary, !.pc = "requestMetrics", !.next = TRUE]
             ELSE IF q.method = "OPTIONS" /\ q.acrm # ""
             THEN [q EXCEPT !.header.vary = vary, !.header.allowOrigin = q.origin,
                            !.header.allowMethods = "OPTIONS, PUT, PATCH, DELETE",
                            !.header.maxAge = "60",
                            !.header.allowHeaders = "Authorization, Content-Type",
                            !.status = 200, !.pc = "done"]
             ELSE [q EXCEPT !.header.vary = vary, !.header.allowOrigin = q.origin,
                            !.pc = "requestMetrics", !.next = TRUE]]
    /\ UNCHANGED metrics
    /\ UNCHANGED notPipeVars

\* The handler of enableCORS: the two Vary values; no Origin, or one that is
\* not allowed: next; an allowed one: Access-Control-Allow-Origin, and for a
\* preflight the three headers and WriteHeader(200) without next.
enableCORS(r) ==
    /\ preq[r].pc = "enableCORS"
    /\ LET q == preq[r]
           vary == {"Origin", "Access-Control-Request-Method"}
       IN  preq' = [preq EXCEPT ![r] =
             IF q.origin = "" \/ q.origin \notin allowedOrigins
             THEN [q EXCEPT !.header.vary = vary, !.pc = "requestMetrics", !.next = TRUE]
             ELSE IF q.method = "OPTIONS" /\ q.acrm # ""
             THEN [q EXCEPT !.header.vary = vary, !.header.allowOrigin = q.origin,
                            !.header.allowMethods = "OPTIONS, PUT, PATCH, DELETE",
                            !.header.maxAge = "60",
                            !.header.allowHeaders = "Authorization, Content-Type",
                            !.status = 200, !.pc = "done"]
             ELSE [q EXCEPT !.header.vary = vary, !.header.allowOrigin = q.origin,
                            !.pc = "requestMetrics", !.next = TRUE]]
    /\ UNCHANGED metrics
    /\ UNCHANGED notPipeVars

\* requestMetrics before next.ServeHTTP: requestsReceived.Add(1) and
\* newMetricsResponseWriter(w), whose statusCode starts as 200.
requestMetrics_Before(r) ==
    /\ preq[r].pc = "requestMetrics"
    /\ metrics' = [metrics EXCEPT !.requests_received = @ + 1]
    /\ preq' = [preq EXCEPT ![r].pc = "next.ServeHTTP",
                            ![r].mrw = [statusCode |-> 200, headerWritten |-> FALSE]]
    /\ UNCHANGED notPipeVars

\* The handler below calls mrw.WriteHeader(statusCode): the wrapped writer
\* keeps the first status it is given; mrw keeps it unless headerWritten.
mrwWriteHeader(r, statusCode) ==
    /\ preq[r].pc = "next.ServeHTTP"
    /\ preq[r].calls < MaxWriterCalls
    /\ preq' = [preq EXCEPT ![r] =
          [@ EXCEPT !.status = IF @ = 0 THEN statusCode ELSE @,
                    !.first = IF @ = 0 THEN statusCode ELSE @,
                    !.mrw = IF @.headerWritten THEN @
                            ELSE [statusCode |-> statusCode, headerWritten |-> TRUE],
                    !.calls = @ + 1]]
    /\ UNCHANGED metrics
    /\ UNCHANGED notPipeVars

\* The handler below calls mrw.Write(byt): headerWritten = true; the wrapped
\* writer sends 200 first when no status was written.
mrwWrite(r) ==
    /\ preq[r].pc = "next.ServeHTTP"
    /\ preq[r].calls < MaxWriterCalls
    /\ preq' = [preq EXCEPT ![r] =
          [@ EXCEPT !.status = IF @ = 0 THEN 200 ELSE @,
                    !.first = IF @ = 0 THEN 200 ELSE @,
                    !.mrw.headerWritten = TRUE,
                    !.calls = @ + 1]]
    /\ UNCHANGED metrics
    /\ UNCHANGED notPipeVars

\* next.ServeHTTP(mrw, r) returns.
nextReturns(r) ==
    /\ preq[r].pc = "next.ServeHTTP"
    /\ preq' = [preq EXCEPT ![r].pc = "responsesSent"]
    /\ UNCHANGED metrics
    /\ UNCHANGED notPipeVars

requestMetrics_After_Always200(r) ==
    /\ preq[r].pc = "responsesSent"
    /\ metrics' = [metrics EXCEPT !.responses_sent = @ + 1,
                                  !.responses_sent_by_status[200] = @ + 1]
    /\ preq' = [preq EXCEPT ![r].pc = "done", ![r].status = IF @ = 0 THEN 200 ELSE @]
    /\ UNCHANGED notPipeVars

\* requestMetrics after next.ServeHTTP: responsesSent.Add(1) and
\* responsesSentByStatus.Add(strconv.Itoa(mrw.statusCode), 1); then the server
\* sends 200 if the handler wrote nothing.
requestMetrics_After(r) ==
    /\ preq[r].pc = "responsesSent"
    /\ metrics' = [metrics EXCEPT !.responses_sent = @ + 1,
                                  !.responses_sent_by_status[preq[r].mrw.statusCode] = @ + 1]
    /\ preq' = [preq EXCEPT ![r].pc = "done", ![r].status = IF @ = 0 THEN 200 ELSE @]
    /\ UNCHANGED notPipeVars

\* next.ServeHTTP(mrw, r) panics: the panic unwinds through requestMetrics, which
\* defers nothing, and through enableCORS to the deferred function of
\* recoverPanic, which sets Connection: close and writes the 500 on its own
\* writer; a status already sent stays.
nextPanics(r) ==
    /\ preq[r].pc = "next.ServeHTTP"
    /\ preq' = [preq EXCEPT ![r] =
          [@ EXCEPT !.pc = "recovered",
                    !.header.connection = IF preq[r].status = 0 THEN "close" ELSE @,
                    !.status = IF @ = 0 THEN 500 ELSE @]]
    /\ UNCHANGED metrics
    /\ UNCHANGED notPipeVars

NextPipeline ==
    \/ \E r \in PReqs, origin \in Origins, method \in Methods, acrm \in RequestMethods :
          PipeReceive(r, origin, method, acrm)
    \/ \E r \in PReqs : enableCORS(r)
    \/ \E r \in PReqs : requestMetrics_Before(r)
    \/ \E r \in PReqs, statusCode \in Statuses : mrwWriteHeader(r, statusCode)
    \/ \E r \in PReqs : mrwWrite(r)
    \/ \E r \in PReqs : nextReturns(r)
    \/ \E r \in PReqs : requestMetrics_After(r)
    \/ \E r \in PReqs : nextPanics(r)

(***************************************************************************)
(* registerUserHandler and the goroutine of its welcome email              *)
(***************************************************************************)
notRegVars == <<serveVars, movieVars, limVars, authVars, histVars, actVars, pipeVars>>
notAuthRegVars == <<serveVars, movieVars, limVars, histVars, actVars, pipeVars>>
notServeRegVars == <<movieVars, limVars, authVars, histVars, actVars, pipeVars>>

RegEmails == {"a@example.com", "b@example.com"}
badRequestResponse == [status |-> 400, error |-> "bad request", challenge |-> FALSE]
acceptedResponse == [status |-> 202, error |-> "", challenge |-> FALSE]
AllRegisterCalls == {"InsertUser", "AddForUser", "NewToken"}

\* The rows InsertUser has stored so far.
InsertedEmails == {rreq[x].email : x \in {y \in RegReqs : "InsertUser" \in rreq[y].succeeded}}
InsertedIds == {rreq[x].user : x \in {y \in RegReqs : "InsertUser" \in rreq[y].succeeded}}

\* registerUserHandler up to the store: readJSON, Password.SetPass, ValidateUser.
registerUserHandler_Validate(r) ==
    /\ rreq[r].pc = "idle"
    /\ \E email \in RegEmails, body \in {"malformed", "SetPass fails", "invalid", "valid"} :
          rreq' = [rreq EXCEPT ![r] =
              IF body = "malformed" THEN [@ EXCEPT !.pc = "done", !.resp = badRequestResponse]
              ELSE IF body = "SetPass fails"
              THEN [@ EXCEPT !.pc = "done", !.email = email, !.resp = serverErrorResponse]
              ELSE IF body = "invalid"
              THEN [@ EXCEPT !.pc = "done", !.email = email,
                             !.resp = failedValidationResponse("must be provided")]
              ELSE [@ EXCEPT !.pc = "InsertUser", !.email = email]]
    /\ UNCHANGED creq
    /\ UNCHANGED notRegVars

\* Users.InsertUser(ctx, user): a new id; ErrDuplicateEmail for a taken email
\* is answered 422, any other error through commonErrs.
registerUserHandler_InsertUser(r) ==
    /\ rreq[r].pc = "InsertUser"
    /\ \/ \E err \in StoreErrors :
             rreq' = [rreq EXCEPT ![r] = [@ EXCEPT !.pc = "done", !.resp = commonErrors(err)]]
       \/ /\ rreq[r].email \in InsertedEmails
          /\ rreq' = [rreq EXCEPT ![r] = [@ EXCEPT !.pc = "done",
                          !.resp = failedValidationResponse("email already taken")]]
       \/ /\ rreq[r].email \notin InsertedEmails
          /\ \E id \in UserIds \ InsertedIds :
                rreq' = [rreq EXCEPT ![r] = [@ EXCEPT !.pc = "AddForUser", !.user = id,
                                                      !.succeeded = @ \cup {"InsertUser"}]]
    /\ UNCHANGED creq
    /\ UNCHANGED notRegVars

\* Permissions.AddForUser(ctx, user.Id, "movie:user")
registerUserHandler_AddForUser(r) ==
    /\ rreq[r].pc = "AddForUser"
    /\ \/ /\ \E err \in StoreErrors :
                rreq' = [rreq EXCEPT ![r] = [@ EXCEPT !.pc = "done", !.resp = commonErrors(err)]]
          /\ UNCHANGED permissions
       \/ /\ permissions' = [permissions EXCEPT ![rreq[r].user] = @ \cup {"movie:user"}]
          /\ rreq' = [rreq EXCEPT ![r] = [@ EXCEPT !.pc = "NewToken",
                                                    !.succeeded = @ \cup {"AddForUser"}]]
    /\ UNCHANGED <<creq, clock, users, tokens, issued, areq>>
    /\ UNCHANGED notAuthRegVars

registerUserHandler_NewToken_ScheduleOnError(r) ==
    /\ rreq[r].pc = "NewToken"
    /\ \/ /\ \E err \in StoreErrors :
                rreq' = [rreq EXCEPT ![r] = [@ EXCEPT !.pc = "background"]]
          /\ UNCHANGED <<tokens, issued>>
       \/ /\ Cardinality(issued) < MaxIssued
          /\ \E plainTxt \in IssuablePlainTexts \ {t.PlainText : t \in issued} :
                LET token == generateToken(rreq[r].user, ActivationTTL, ScopeActivation, plainTxt)
                IN  /\ tokens' = tokens \cup {TokenRow(token)}
                    /\ issued' = issued \cup {token}
          /\ rreq' = [rreq EXCEPT ![r] = [@ EXCEPT !.pc = "background",
                                                    !.succeeded = @ \cup {"NewToken"}]]
    /\ UNCHANGED <<creq, clock, users, permissions, areq>>
    /\ UNCHANGED notAuthRegVars

\* Tokens.NewToken(ctx, user.Id, 3*24*time.Hour, data.ScopeActivation); an
\* error is answered through commonErrs and the handler returns.
registerUserHandler_NewToken(r) ==
    /\ rreq[r].pc = "NewToken"
    /\ \/ /\ \E err \in StoreErrors :
                rreq' = [rreq EXCEPT ![r] = [@ EXCEPT !.pc = "done", !.resp = commonErrors(err)]]
          /\ UNCHANGED <<tokens, issued>>
       \/ /\ Cardinality(issued) < MaxIssued
          /\ \E plainTxt \in IssuablePlainTexts \ {t.PlainText : t \in issued} :
                LET token == generateToken(rreq[r].user, ActivationTTL, ScopeActivation, plainTxt)
                IN  /\ tokens' = tokens \cup {TokenRow(token)}
                    /\ issued' = issued \cup {token}
          /\ rreq' = [rreq EXCEPT ![r] = [@ EXCEPT !.pc = "background",
                                                    !.succeeded = @ \cup {"NewToken"}]]
    /\ UNCHANGED <<creq, clock, users, permissions, areq>>
    /\ UNCHANGED notAuthRegVars

\* bknd.background(func() { ... SendEmail ... }): wtgrp.Add(1) and go func();
\* the call returns at once.
registerUserHandler_background(r) ==
    /\ rreq[r].pc = "background"
    /\ wtgrp' = wtgrp + 1
    /\ rreq' = [rreq EXCEPT ![r] = [@ EXCEPT !.pc = "writeJSON", !.task = "scheduled",
                                              !.scheduled = @ + 1]]
    /\ UNCHANGED <<creq, mainpc, serveResult, gpc, srvr, tasks, hreq, exited, scheduledIn, hresp>>
    /\ UNCHANGED notServeRegVars

\* err = bknd.writeJSON(w, http.StatusAccepted, envelope{"user": user}, nil):
\* writeJSON returns nil for this envelope.
registerUserHandler_writeJSON(r) ==
    /\ rreq[r].pc = "writeJSON"
    /\ rreq' = [rreq EXCEPT ![r] = [@ EXCEPT !.pc = "if err != nil", !.resp = acceptedResponse,
                                              !.taskAtResp = rreq[r].task]]
    /\ UNCHANGED creq
    /\ UNCHANGED notRegVars

\* if err != nil { serverErrorResponse }: err is the variable the goroutine of
\* the email assigns the result of SendEmail to, without synchronisation; once
\* a failed SendEmail has been assigned the handler may read either value, and
\* on the error it calls serverErrorResponse after the 202 was written.
registerUserHandler_Return(r) ==
    /\ rreq[r].pc = "if err != nil"
    /\ \E seesMailErr \in (IF rreq[r].task = "finished" /\ rreq[r].mailErr THEN BOOLEAN ELSE {FALSE}) :
          rreq' = [rreq EXCEPT ![r] = [@ EXCEPT !.pc = "done", !.late500 = seesMailErr]]
    /\ UNCHANGED creq
    /\ UNCHANGED notRegVars

\* The goroutine started by background begins fn().
WelcomeTaskStart(r) ==
    /\ rreq[r].task = "scheduled"
    /\ rreq' = [rreq EXCEPT ![r].task = "running"]
    /\ UNCHANGED creq
    /\ UNCHANGED notRegVars

\* fn(): err = bknd.mailer.SendEmail(...), logged when it fails; the deferred
\* wtgrp.Done() runs.
WelcomeTaskSendEmail(r) ==
    /\ rreq[r].task = "running"
    /\ \E failed \in BOOLEAN :
          rreq' = [rreq EXCEPT ![r] = [@ EXCEPT !.task = "finished", !.mailErr = failed]]
    /\ wtgrp' = wtgrp - 1
    /\ UNCHANGED <<creq, mainpc, serveResult, gpc, srvr, tasks, hreq, exited, scheduledIn, hresp>>
    /\ UNCHANGED notServeRegVars

NextRegister ==
    \/ \E r \in RegReqs : registerUserHandler_Validate(r)
    \/ \E r \in RegReqs : registerUserHandler_InsertUser(r)
    \/ \E r \in RegReqs : registerUserHandler_AddForUser(r)
    \/ \E r \in RegReqs : registerUserHandler_NewToken(r)
    \/ \E r \in RegReqs : registerUserHandler_background(r)
    \/ \E r \in RegReqs : registerUserHandler_writeJSON(r)
    \/ \E r \in RegReqs : registerUserHandler_Return(r)
    \/ \E r \in RegReqs : WelcomeTaskStart(r)
    \/ \E r \in RegReqs : WelcomeTaskSendEmail(r)

(***************************************************************************)
(* createAuthTokenHandler, UserModel.GetByEmail and password.CheckPass      *)
(***************************************************************************)
GoodPassword == <<"p", "a", "5", "5", "w", "o", "r", "d">>
WrongPassword == <<"p", "a", "5", "5", "w", "o", "r", "D">>
ShortPassword == <<"p", "w">>
CredPasswords == {GoodPassword, WrongPassword, ShortPassword, <<>>}
CredEmails == {"a@example.com", "c@example.com", "nobody@example.com", "not an email", ""}

\* bcrypt.GenerateFromPassword, as far as comparing goes: a well-formed hash
\* that matches one password only.
Bcrypt(plainTxtPass) == <<"$2a$12$">> \o plainTxtPass

\* The users rows GetByEmail selects from; the second has a password_hash that
\* is not a bcrypt hash.
Accounts ==
    [email \in {"a@example.com", "c@example.com"} |->
        IF email = "a@example.com" THEN [id |-> "u1", hash |-> Bcrypt(GoodPassword)]
        ELSE [id |-> "u2", hash |-> <<"corrupt">>]]

\* validator.Matches(email, validator.EmailRX), on the emails above.
MatchesEmailRX(email) == email \in {"a@example.com", "c@example.com", "nobody@example.com"}

\* ValidatePasswordPlainTxt then ValidateEmail: the first message, "" when valid.
ValidateCredentials(email, pass) ==
    IF pass = <<>> THEN "must be provided"
    ELSE IF Len(pass) < 8 THEN "must be greater than 8 chars"
    ELSE IF Len(pass) > 72 THEN "must be lesser than 72 chars"
    ELSE IF email = "" THEN "must be provided"
    ELSE IF ~MatchesEmailRX(email) THEN "invalid email address"
    ELSE ""

\* password.CheckPass: bcrypt.CompareHashAndPassword; a mismatch is
\* (false, nil), any other error of bcrypt is returned.
CheckPass(hash, plainTxtPass) ==
    IF hash[1] # "$2a$12$" THEN [correct |-> FALSE, err |-> "bcrypt error"]
    ELSE [correct |-> hash = Bcrypt(plainTxtPass), err |-> "nil"]

invalidCredentialsResponse ==
    [status |-> 401, error |-> "invalid authentication credentials!", challenge |-> FALSE]
notFoundResponse ==
    [status |-> 404, error |-> "requested resource not found", challenge |-> FALSE]
createdResponse == [status |-> 201, error |-> "", challenge |-> FALSE]

\* createAuthTokenHandler up to the lookup: readJSON, the two validations.
createAuthTokenHandler_Validate(r) ==
    /\ creq[r].pc = "idle"
    /\ \E email \in CredEmails, pass \in CredPasswords, malformed \in BOOLEAN :
          creq' = [creq EXCEPT ![r] =
              IF malformed THEN [@ EXCEPT !.pc = "done", !.resp = badRequestResponse]
              ELSE IF ValidateCredentials(email, pass) # ""
              THEN [@ EXCEPT !.pc = "done", !.email = email, !.password = pass,
                             !.resp = failedValidationResponse(ValidateCredentials(email, pass))]
              ELSE [@ EXCEPT !.pc = "GetByEmail", !.email = email, !.password = pass]]
    /\ UNCHANGED rreq
    /\ UNCHANGED notRegVars

createAuthTokenHandler_GetByEmail_NotFound404(r) ==
    /\ creq[r].pc = "GetByEmail"
    /\ \/ \E err \in StoreErrors :
             creq' = [creq EXCEPT ![r] = [@ EXCEPT !.pc = "done", !.err = err,
                 !.resp = IF err = "context.DeadlineExceeded" THEN deadlineExceededResponse
                          ELSE IF err = "context.Canceled" THEN NoResponse
                          ELSE serverErrorResponse]]
       \/ creq' = [creq EXCEPT ![r] =
             IF creq[r].email \notin DOMAIN Accounts
             THEN [@ EXCEPT !.pc = "done", !.err = "ErrRecordNotFound",
                            !.resp = notFoundResponse]
             ELSE [@ EXCEPT !.pc = "CheckPass", !.user = Accounts[creq[r].email].id]]
    /\ UNCHANGED rreq
    /\ UNCHANGED notRegVars

\* Users.GetByEmail(ctx, input.Email) and the switch on its error.
createAuthTokenHandler_GetByEmail(r) ==
    /\ creq[r].pc = "GetByEmail"
    /\ \/ \E err \in StoreErrors :
             creq' = [creq EXCEPT ![r] = [@ EXCEPT !.pc = "done", !.err = err,
                 !.resp = IF err = "context.DeadlineExceeded" THEN deadlineExceededResponse
                          ELSE IF err = "context.Canceled" THEN NoResponse
                          ELSE serverErrorResponse]]
       \/ creq' = [creq EXCEPT ![r] =
             IF creq[r].email \notin DOMAIN Accounts
             THEN [@ EXCEPT !.pc = "done", !.err = "ErrRecordNotFound",
                            !.resp = invalidCredentialsResponse]
             ELSE [@ EXCEPT !.pc = "CheckPass", !.user = Accounts[creq[r].email].id]]
    /\ UNCHANGED rreq
    /\ UNCHANGED notRegVars

\* user.Password.CheckPass(input.Password): 500 on an error, 401 on a mismatch.
createAuthTokenHandler_CheckPass(r) ==
    /\ creq[r].pc = "CheckPass"
    /\ LET got == CheckPass(Accounts[creq[r].email].hash, creq[r].password)
       IN  creq' = [creq EXCEPT ![r] =
             IF got.err # "nil"
             THEN [@ EXCEPT !.pc = "done", !.err = got.err, !.resp = serverErrorResponse]
             ELSE IF ~got.correct
             THEN [@ EXCEPT !.pc = "done", !.err = "mismatch", !.resp = invalidCredentialsResponse]
             ELSE [@ EXCEPT !.pc = "NewToken"]]
    /\ UNCHANGED rreq
    /\ UNCHANGED notRegVars

\* Tokens.NewToken(ctx, user.Id, 360*time.Hour, data.ScopeAuthentication), the
\* switch on its error, then writeJSON(w, http.StatusCreated, ...).
createAuthTokenHandler_NewToken(r) ==
    /\ creq[r].pc = "NewToken"
    /\ \/ /\ \E err \in StoreErrors :
                creq' = [creq EXCEPT ![r] = [@ EXCEPT !.pc = "done", !.err = err,
                    !.resp = IF err = "context.DeadlineExceeded" THEN deadlineExceededResponse
                             ELSE IF err = "context.Canceled" THEN NoResponse
                             ELSE serverErrorResponse]]
          /\ UNCHANGED <<tokens, issued>>
       \/ /\ Cardinality(issued) < MaxIssued
          /\ \E plainTxt \in IssuablePlainTexts \ {t.PlainText : t \in issued} :
                LET token == generateToken(creq[r].user, AuthTokenTTL, ScopeAuthentication, plainTxt)
                IN  /\ tokens' = tokens \cup {TokenRow(token)}
                    /\ issued' = issued \cup {token}
                    /\ creq' = [creq EXCEPT ![r] = [@ EXCEPT !.pc = "done", !.token = plainTxt,
                                                              !.resp = createdResponse]]
    /\ UNCHANGED <<rreq, clock, users, permissions, areq>>
    /\ UNCHANGED notAuthRegVars

NextLogin ==
    \/ \E r \in CredReqs : createAuthTokenHandler_Validate(r)
    \/ \E r \in CredReqs : createAuthTokenHandler_GetByEmail(r)
    \/ \E r \in CredReqs : createAuthTokenHandler_CheckPass(r)
    \/ \E r \in CredReqs : createAuthTokenHandler_NewToken(r)

\* The two places a client's token enters: the Authorization header of a
\* request to an open route, and the body of one request for activation, with
\* tokens of either scope issued meanwhile.
NextCredentials ==
    \/ \E u \in UserIds, scope \in Scopes : NewToken(u, AuthTokenTTL, scope)
    \/ \E h \in AuthHeaders : ReceiveRequest(h, "")
    \/ Authenticate
    \/ ServeHandler
    \/ FinishResponse
    \/ \E plainTxt \in TokenInputs : activateUserHandler_Validate(1, plainTxt)
    \/ activateUserHandler_GetForToken(1)
    \/ activateUserHandler_UpdateUser(1)
    \/ activateUserHandler_DeleteAllForUser(1)

(***************************************************************************)
(* Specifications                                                          *)
(***************************************************************************)
InitServe == InitServeVars /\ ParkMovieVars /\ ParkLimVars /\ ParkAuthVars

SpecServe == InitServe /\ [][NextServe]_vars

InitMovies == InitMovieVars /\ InitServeVars /\ ParkLimVars /\ ParkAuthVars

SpecMovies == InitMovies /\ [][NextMovies]_vars

SpecUpdateTx == InitMovies /\ [][NextUpdateTx]_vars

InitLimiter == InitLimVars /\ InitServeVars /\ ParkMovieVars /\ ParkAuthVars

SpecLimiter == InitLimiter /\ [][NextLimiter]_vars

\* The requests of one client and the cleanup goroutine contending for the
\* mutex, minute by minute.
\* The scheduler lets every goroutine that can take a step take one, and
\* sync.Mutex hands the lock to a goroutine that keeps waiting for it
\* (starvation mode).
NextContend ==
    \/ PassMinute
    \/ \E r \in LReqs : Arrive(r, RefillClient)
    \/ \E r \in LReqs : Lock(r)
    \/ \E r \in LReqs : Lookup(r)
    \/ \E r \in LReqs : Create(r)
    \/ \E r \in LReqs : Stamp(r)
    \/ \E r \in LReqs : Allow(r)
    \/ \E r \in LReqs : UnlockDeny(r)
    \/ \E r \in LReqs : RateLimitExceededResponse(r)
    \/ \E r \in LReqs : UnlockPass(r)
    \/ \E r \in LReqs : ServeNext(r)
    \/ SweepLock
    \/ SweepRange
    \/ SweepUnlock

FairLimiter ==
    /\ InitLimiter /\ [][NextContend]_vars
    /\ \A r \in LReqs : WF_vars(Lookup(r) \/ Create(r) \/ Stamp(r) \/ Allow(r)
                                  \/ UnlockDeny(r) \/ UnlockPass(r))
    /\ \A r \in LReqs : SF_vars(Lock(r))
    /\ WF_vars(SweepRange \/ SweepUnlock)
    /\ SF_vars(SweepLock)

InitRefill == InitLimVars /\ InitServeVars /\ ParkMovieVars /\ ParkAuthVars

SpecRefill == InitRefill /\ [][NextRefill]_vars

InitAuth == InitAuthVars /\ InitServeVars /\ ParkMovieVars /\ ParkLimVars

SpecAuth == InitAuth /\ [][NextAuth]_vars

InitActivate ==
    /\ ParkAuthVars /\ InitServeVars /\ ParkLimVars
    /\ movies = [id \in MovieIds |-> NoMovie]
    /\ commits = [id \in MovieIds |-> 0]
    /\ ureq = [r \in UReqs |-> IdleUReq]
    /\ clientFoundRows \in BOOLEAN
    /\ txn = [r \in UReqs |-> NoTx]

SpecActivate == InitActivate /\ [][NextActivate]_vars

InitPipeline == ParkAuthVars /\ InitServeVars /\ ParkMovieVars /\ ParkLimVars

SpecPipeline == InitPipeline /\ [][NextPipeline]_vars

InitRegister == ParkAuthVars /\ InitServeVars /\ ParkMovieVars /\ ParkLimVars

SpecRegister == InitRegister /\ [][NextRegister]_vars

InitLogin == ParkAuthVars /\ InitServeVars /\ ParkMovieVars /\ ParkLimVars

SpecLogin == InitLogin /\ [][NextLogin]_vars

InitCredentials == ParkAuthVars /\ InitServeVars /\ ParkMovieVars /\ ParkLimVars

SpecCredentials == InitCredentials /\ [][NextCredentials]_vars

(***************************************************************************)
(* Claims                                                                  *)
(***************************************************************************)
\* C1: of the update requests that fetched a movie in the same state (the same
\* number of committed updates, i.e. the same observed version), no two both
\* succeed: all but one get ErrEditConflict (409).
C1_OneUpdatePerObservedVersion ==
    \A r1, r2 \in UReqs :
        (/\ r1 # r2
         /\ ureq[r1].pc = "done" /\ ureq[r2].pc = "done"
         /\ ureq[r1].id = ureq[r2].id
         /\ ureq[r1].observed = ureq[r2].observed
         /\ ureq[r1].resp = 200)
            => ureq[r2].resp # 200

Outstanding == {t \in TaskIds : tasks[t] \in {"scheduled", "running"}}

\* C2: on every shutdown path (Shutdown was called, whether it returned nil or
\* the timeout error), serve() has not returned before bknd.wtgrp.Wait() returned.
C2_ServeReturnsOnlyAfterWait ==
    (mainpc = "return" /\ serveResult \in {"nil", "shutdown_error"})
        => gpc \in {"sendNil", "done"}

\* C3: bknd.wtgrp.Wait() never returns while a task scheduled through
\* background() has not finished (returned or panicked and recovered).
C3_DrainWaitsForEveryTask ==
    [][(gpc = "Wait" /\ gpc' = "sendNil") => Outstanding = {}]_vars

\* C3 witness: Wait has returned after tasks were scheduled, one of which panicked.
C3_Witness ==
    /\ gpc = "sendNil"
    /\ \E t \in TaskIds : tasks[t] = "recovered"
    /\ \E t \in TaskIds : tasks[t] = "finished"
\* The handler positions between mtx.Lock() and mtx.Unlock().
InSection(r) == lreq[r].pc \in {"lookup", "create", "stamp", "Allow", "UnlockDeny", "UnlockPass"}
SweeperInSection == sweeper.pc \in {"range", "Unlock"}

\* What C4 says of one step of request r of client k, taken before one token has
\* been refilled since the record of k was made: Allow sends it on towards
\* next.ServeHTTP exactly when fewer than burst Allow calls came before it, and
\* towards the 429 response otherwise; a denied request never reaches next.
C4_Step(r, k) ==
    /\ (lreq[r].pc = "Allow" /\ lreq'[r].pc # "Allow" /\ stats[k].age < TicksPerToken)
        => /\ lreq'[r].pc = (IF stats[k].seen < burst THEN "UnlockPass" ELSE "UnlockDeny")
           /\ stats'[k].seen = stats[k].seen + 1
    /\ lreq[r].pc = "UnlockDeny" => lreq'[r].pc \in {"UnlockDeny", "rateLimitExceededResponse"}
    /\ lreq[r].pc = "rateLimitExceededResponse" => lreq'[r].pc \in {"rateLimitExceededResponse", "idle"}
    /\ lreq[r].pc = "UnlockPass" => lreq'[r].pc \in {"UnlockPass", "next"}

\* C4: with the limiter enabled, for one client key, from a fresh record and
\* before one token has been refilled, the first burst requests are passed to the
\* next handler and every later one gets the 429 response and is not passed on.
C4_FirstBurstAdmittedRestDenied ==
    /\ [](\A k \in ClientKeys : (limiterEnabled /\ stats[k].age < TicksPerToken)
            => stats[k].admitted = Min(stats[k].seen, burst))
    /\ [][\A r \in LReqs : limiterEnabled => C4_Step(r, lreq[r].ip)]_vars

\* C4 witness: time has passed, but less than one refill interval, since the
\* record was made; burst requests were admitted and a later one is being
\* answered 429.
C4_Witness ==
    \E k \in ClientKeys, r \in LReqs :
        /\ stats[k].age > 0 /\ stats[k].age < TicksPerToken
        /\ stats[k].seen > burst /\ stats[k].admitted = burst
        /\ lreq[r].ip = k /\ lreq[r].pc = "rateLimitExceededResponse"

\* C5: lookup-or-create, lastSeen update and Allow of one request are one critical
\* section: at most one request or sweep is inside it, and only with the mutex
\* locked; a request about to create found no record (no second bucket for a
\* key); the record a request found is still there when it stamps and consumes;
\* and with no time elapsed since the record was made exactly min(N, burst) of
\* its N requests were admitted.
C5_OneCriticalSection ==
    /\ Cardinality({r \in LReqs : InSection(r)}) + (IF SweeperInSection THEN 1 ELSE 0) <= 1
    /\ ((\E r \in LReqs : InSection(r)) \/ SweeperInSection) <=> mtx = "locked"
    /\ \A r \in LReqs : lreq[r].pc = "create" => ~clients[lreq[r].ip].present
    /\ \A r \in LReqs : lreq[r].pc \in {"stamp", "Allow"} => clients[lreq[r].ip].present
    /\ \A r \in LReqs : lreq[r].pc # "panic"
    /\ \A k \in ClientKeys : stats[k].age = 0 => stats[k].admitted = Min(stats[k].seen, burst)

\* C5 witness: after a sweep has run, burst requests of a client were admitted in
\* the same instant its record was made, a further one holds the mutex at Allow,
\* another request waits at mtx.Lock(), and the sweeper is due and kept out.
C5_Witness ==
    \E k \in ClientKeys, r1, r2 \in LReqs :
        /\ stats[k].age = 0 /\ stats[k].seen = burst /\ stats[k].admitted = burst
        /\ lreq[r1].ip = k /\ lreq[r1].pc = "Allow"
        /\ lreq[r2].pc = "Lock"
        /\ sweeper.pc = "Sleep" /\ sweeper.wake > SleepTicks /\ now >= sweeper.wake

\* The request has been passed on by authenticate (a user is set in its context).
PassedOn == areq.pc \in {"chain", "done"} /\ areq.log # <<>>
Gated == areq.code \in PermissionCodes
IsPrefix(s1, s2) == Len(s1) <= Len(s2) /\ SubSeq(s2, 1, Len(s1)) = s1

\* C6: on a route wrapped with requirePermission(code), a request whose attached
\* identity is the anonymous sentinel gets the 401 "you must be authenticated"
\* response, never a 403, for every code and every answer of the store: it is
\* stopped at the first link and nothing behind that link runs for it.
C6_AnonymousGets401 ==
    (PassedOn /\ Gated /\ areq.user.ptr = "AnonymousUser")
        => /\ areq.pc = "chain" => areq.log = <<"contextSetUser">>
           /\ areq.pc = "done" => /\ areq.resp = authRequiredResponse
                                  /\ areq.resp.status = 401
                                  /\ areq.log = <<"contextSetUser", "IsAnonymous">>

\* C6 witness: an anonymous request for the route that needs "admin" was
\* answered 401 by requireAuthenticatedUser.
C6_Witness ==
    /\ areq.pc = "done" /\ areq.code = "admin" /\ areq.header = <<>>
    /\ areq.user.ptr = "AnonymousUser" /\ areq.resp.status = 401
    /\ areq.log = <<"contextSetUser", "IsAnonymous">>

\* C7: the handler wrapped by requirePermission(code, next) runs only for a
\* request whose identity is not anonymous, is activated, and whose fetched
\* permissions contain code; the checks run in the order authenticated,
\* activated, permitted, and the permissions are fetched only after the first
\* two checks passed.
C7_HandlerOnlyAfterThreeChecks ==
    (PassedOn /\ Gated)
        => /\ IsPrefix(areq.log, <<"contextSetUser", "IsAnonymous", "Activated",
                                   "GetAllForUser", "Include", "next">>)
           /\ Len(areq.log) >= 3 => areq.user.ptr # "AnonymousUser"
           /\ Len(areq.log) >= 4 => areq.user.Activated
           /\ Len(areq.log) >= 6 =>
                /\ areq.code \in areq.perms
                /\ areq.perms = permissions[areq.user.Id]
                /\ areq.resp = handlerResponse

\* C7 witness: the activated user u1, holding "user", reached the handler of the
\* route that needs "user" after all three checks.
C7_Witness ==
    /\ areq.pc = "done" /\ areq.code = "user" /\ areq.user.Id = "u1"
    /\ areq.user.Activated /\ areq.perms = {"user"}
    /\ areq.log = <<"contextSetUser", "IsAnonymous", "Activated", "GetAllForUser",
                    "Include", "next">>

\* The plaintexts GetForToken is asked about.
LookupPlainTexts == {PlainA, PlainB, PlainC, ShortToken}
\* A stored row that makes (scope, plainTxt) a valid credential of user u now.
ValidRowFor(scope, plainTxt, u) ==
    \E t \in tokens : /\ t.hash = Sha256(plainTxt) /\ t.scope = scope
                      /\ t.expiry > clock /\ t.user_id = u

\* C8 (as stated): GetForToken returns a user only for a stored row with the
\* digest of the plaintext, the requested scope and an expiry later than now,
\* and that user is the row's owner; with no such row (expired, wrong scope,
\* unknown hash) it returns ErrRecordNotFound.
C8_NoRowAlwaysNotFound ==
    \A scope \in Scopes, plainTxt \in LookupPlainTexts :
        \A got \in GetForToken(scope, plainTxt) :
            /\ got.err = "nil" => ValidRowFor(scope, plainTxt, got.user.Id)
            /\ (~\E u \in UserIds : ValidRowFor(scope, plainTxt, u))
                  => got.err = "ErrRecordNotFound"

\* C8 (amended): GetForToken returns a user only for a stored row with the
\* digest of the plaintext, the requested scope and an expiry later than now,
\* and that user is the row's owner; with no such row it never returns a user:
\* it returns ErrRecordNotFound when the query completes, and the error of the
\* query when the query itself fails.
C8_UserOnlyForValidRow ==
    \A scope \in Scopes, plainTxt \in LookupPlainTexts :
        LET gots == GetForToken(scope, plainTxt)
        IN  /\ \A got \in gots :
                /\ got.err = "nil" => /\ got.user.ptr = "scanned"
                                      /\ ValidRowFor(scope, plainTxt, got.user.Id)
                /\ got.err # "nil" => got.user = NilUser
            /\ (~\E u \in UserIds : ValidRowFor(scope, plainTxt, u))
                  => /\ \A got \in gots : got.err \in {"ErrRecordNotFound"} \cup StoreErrors
                     /\ \E got \in gots : got.err = "ErrRecordNotFound"
            /\ (\E u \in UserIds : ValidRowFor(scope, plainTxt, u))
                  => \A got \in gots : got.err # "ErrRecordNotFound"

\* C8 witness: the store holds a live authentication token of one user and a
\* token of the other that is expired or of the activation scope; a request
\* bearing the second was refused as not found.
C8_Witness ==
    \E p1, p2 \in IssuablePlainTexts :
        /\ p1 # p2
        /\ \E u \in UserIds : ValidRowFor(ScopeAuthentication, p1, u)
        /\ \E t \in tokens : /\ t.hash = Sha256(p2)
                             /\ (t.scope = ScopeActivation \/ t.expiry <= clock)
        /\ ~\E u \in UserIds : ValidRowFor(ScopeAuthentication, p2, u)
        /\ areq.pc = "done" /\ areq.header = Bearer \o <<" ">> \o p2
        /\ areq.err = "ErrRecordNotFound"

\* The header is the scheme Bearer, one space, and a 26-character token.
WellFormedBearer(authHeader) ==
    \E plainTxt \in {PlainA, PlainB, PlainC} : authHeader = Bearer \o <<" ">> \o plainTxt

\* C9: a request whose Authorization header is not empty and is malformed, or
\* carries a syntactically invalid token, or carries a token whose lookup yields
\* not-found, is answered 401 with the WWW-Authenticate: Bearer challenge, and
\* the next handler is never invoked for it.
C9_BadCredentialGets401Challenge ==
    (/\ areq.pc \in {"chain", "done"}
     /\ areq.header # <<>>
     /\ (~WellFormedBearer(areq.header) \/ areq.err = "ErrRecordNotFound"))
        => /\ areq.pc = "done"
           /\ areq.resp.status = 401 /\ areq.resp.challenge
           /\ areq.resp = invalidAuthTokenResponse
           /\ areq.log = <<>>
           /\ areq.user = NilUser

\* C9 witness: a header with the scheme Basic and an issued, live token was
\* answered 401 with the challenge.
C9_Witness ==
    /\ areq.pc = "done"
    /\ \E t \in issued :
          /\ areq.header = <<"B", "a", "s", "i", "c", " ">> \o t.PlainText
          /\ ValidRowFor(ScopeAuthentication, t.PlainText, t.UserId)
    /\ areq.resp = invalidAuthTokenResponse /\ areq.log = <<>>

\* What C10 says of the identity of a request that was passed on.
C10_Identity ==
    PassedOn =>
        /\ areq.user.ptr = "AnonymousUser" <=> areq.header = <<>>
        /\ areq.user.ptr = "AnonymousUser" => areq.user = AnonymousUser
        /\ areq.header # <<>> =>
              /\ areq.user.ptr = "scanned"
              /\ \E t \in issued : /\ areq.header = Bearer \o <<" ">> \o t.PlainText
                                   /\ t.Scope = ScopeAuthentication
                                   /\ t.UserId = areq.user.Id
                                   /\ areq.user.Activated = users[t.UserId].activated

\* C10: a request that authenticate passes on carries one identity: the
\* anonymous sentinel exactly when it had no Authorization header, otherwise the
\* user resolved from its bearer token; and no gate link replaces or modifies it.
C10_OneIdentityNeverReplaced ==
    /\ []C10_Identity
    /\ [][(areq.pc = "chain" /\ areq'.pc \in {"chain", "done"}) => areq'.user = areq.user]_vars

\* C10 witness: a request bearing the token of u2 went through the gate links up
\* to the 403 of requireActivatedUser with u2 still in its context.
C10_Witness ==
    /\ areq.pc = "done" /\ Gated /\ areq.header # <<>>
    /\ areq.user.ptr = "scanned" /\ areq.user.Id = "u2"
    /\ areq.resp = inactiveAccountResponse

\* C11: a record whose lastSeen is more than 3 minutes old when a sweep runs is
\* deleted by that sweep (and no other record is); the client's next request is
\* first contact: it makes a new record whose bucket holds burst tokens, so the
\* first burst requests to the new record are all admitted.
C11_StaleEvictedThenFreshBucket ==
    /\ [][(sweeper.pc = "range" /\ sweeper'.pc = "Unlock")
            => \A k \in ClientKeys :
                  clients'[k].present <=>
                      /\ clients[k].present
                      /\ now - clients[k].lastSeen <= StaleSeconds * rps * TicksPerToken]_vars
    /\ [][\A r \in LReqs : (lreq[r].pc = "create" /\ lreq'[r].pc = "stamp")
            => LET k == lreq[r].ip
               IN  /\ clients'[k].present
                   /\ clients'[k].limiter.tokens = burst * TicksPerToken
                   /\ clients'[k].limiter.last = now
                   /\ stats'[k].seen = 0]_vars
    /\ [](\A k \in ClientKeys :
            (limiterEnabled /\ stats[k].evicted) => stats[k].admitted >= Min(stats[k].seen, burst))

\* C11 witness: the record of a client was deleted by a sweep; the client came
\* back, and burst requests to its new record were admitted in one instant.
C11_Witness ==
    \E k \in ClientKeys :
        /\ stats[k].evicted /\ clients[k].present
        /\ stats[k].age = 0 /\ stats[k].seen >= burst /\ stats[k].admitted = burst
        /\ clients[k].lastSeen = now /\ now > StaleTicks

\* The first i - 1 calls all came at the instant of the first one.
AllEarlierAtOnce(i) == \A j \in 1..(i - 1) : calls[j].t = calls[1].t

\* C12: after a client has used up its bucket (burst requests in one instant to
\* a new record), a request less than one refill interval later is denied, the
\* first request exactly one refill interval later is admitted and the one after
\* it, in that instant, is denied; with rate 2 per second and burst 5, once the
\* 6th request was denied and one second has passed, the next 2 requests are
\* admitted.
C12_OneTokenPerRefillInterval ==
    limiterEnabled =>
        /\ \A i \in (burst + 1)..Len(calls) :
              AllEarlierAtOnce(i) =>
                 /\ calls[i].t < calls[1].t + TicksPerToken => ~calls[i].next
                 /\ calls[i].t = calls[1].t + TicksPerToken =>
                       /\ calls[i].next
                       /\ (i < Len(calls) /\ calls[i + 1].t = calls[i].t) => ~calls[i + 1].next
        /\ (/\ rps = 2 /\ burst = 5
            /\ Len(calls) >= 8
            /\ AllEarlierAtOnce(7)
            /\ calls[7].t >= calls[1].t + rps * TicksPerToken)
              => /\ \A i \in 1..5 : calls[i].next
                 /\ ~calls[6].next
                 /\ calls[7].next /\ calls[8].next

\* C12 witness: burst requests were admitted and a 6th denied in one instant;
\* exactly one refill interval later the 7th was admitted and the 8th denied.
C12_Witness ==
    /\ limiterEnabled /\ Len(calls) = 8
    /\ AllEarlierAtOnce(7) /\ ~calls[6].next
    /\ calls[7].t = calls[1].t + TicksPerToken /\ calls[8].t = calls[7].t
    /\ calls[7].next /\ ~calls[8].next

\* C13: once srvr.Shutdown has returned an error, serve() returns nothing but
\* that error: from then on its result is never nil ("server stopped") and never
\* another error, and the error, once returned, stays the outcome.
C13_ShutdownErrorIsTheOutcome ==
    /\ [](gpc = "sendErr" => [](serveResult \in {"none", "shutdown_error"}))
    /\ [][(gpc = "sendErr" /\ gpc' # "sendErr")
            => (mainpc' = "return" /\ serveResult' = "shutdown_error")]_vars
    /\ [][serveResult = "shutdown_error" => serveResult' = "shutdown_error"]_vars

\* C13 witness: serve() has returned the error of Shutdown, and the goroutine,
\* past Wait, stands at its send of nil that nobody receives.
C13_Witness ==
    /\ mainpc = "return" /\ serveResult = "shutdown_error"
    /\ gpc = "sendNil"

\* C14: when serve() has reported "server stopped" and returned nil, every
\* background task has finished: those scheduled before the termination signal
\* and those scheduled by a request still in flight during the grace period;
\* and none was scheduled after srvr.Shutdown returned.
C14_TasksDoneBeforeStopped ==
    serveResult = "nil" =>
        \A t \in TaskIds :
            /\ scheduledIn[t] \in {"", "awaitSignal", "Shutdown", "ShutdownWaitIdle"}
            /\ scheduledIn[t] # "" => tasks[t] \in {"finished", "recovered"}
            /\ scheduledIn[t] = "" => tasks[t] = "unused"

\* C14 witness: serve() returned nil after one task scheduled before the signal
\* and one scheduled while Shutdown was waiting for a request in flight.
C14_Witness ==
    /\ serveResult = "nil"
    /\ \E t1, t2 \in TaskIds :
          /\ scheduledIn[t1] = "awaitSignal" /\ tasks[t1] = "finished"
          /\ scheduledIn[t2] = "ShutdownWaitIdle" /\ tasks[t2] = "finished"

\* The lifecycle state of serve(): 1 Starting, 2 Serving (ListenAndServe is
\* accepting and no signal has come), 3 ShuttingDown (a signal was received),
\* 4 Stopped ("server stopped" reported, nil returned). It is followed while
\* serve() has not returned.
Phase ==
    IF serveResult = "nil" THEN 4
    ELSE IF gpc # "awaitSignal" THEN 3
    ELSE IF mainpc = "ListenAndServe" THEN 2
    ELSE 1

\* The order of the steps of the shutdown goroutine.
GoroutineOrder ==
    { <<"awaitSignal", "Shutdown">>, <<"Shutdown", "ShutdownWaitIdle">>,
      <<"ShutdownWaitIdle", "Wait">>, <<"ShutdownWaitIdle", "sendErr">>,
      <<"sendErr", "Wait">>, <<"Wait", "sendNil">>, <<"sendNil", "done">> }

\* srvr.Shutdown is called only after a signal was received, bknd.wtgrp.Wait()
\* only after srvr.Shutdown returned, and "server stopped" is reported only
\* after Wait returned; the lifecycle state never goes back.
OrderedShutdown ==
    /\ [][gpc' # gpc => <<gpc, gpc'>> \in GoroutineOrder]_vars
    /\ [](srvr = "closed" => gpc \notin {"awaitSignal", "Shutdown"})
    /\ [](serveResult = "nil" => (gpc = "done" /\ mainpc = "return"))
    /\ [][Phase' >= Phase]_vars

\* C15 (as stated): serve() passes through Starting, Serving, ShuttingDown,
\* Stopped in that order without skipping or going back, with Shutdown only
\* after a signal, Wait only after Shutdown returned and "server stopped" only
\* after Wait returned.
C15_NoStateSkipped ==
    /\ OrderedShutdown
    /\ [][mainpc # "return" => Phase' \in {Phase, Phase + 1}]_vars

\* C15 (amended): serve() passes through Starting, Serving, ShuttingDown,
\* Stopped in that order without going back, with Shutdown only after a signal,
\* Wait only after Shutdown returned and "server stopped" only after Wait
\* returned; the one state that can be skipped is Serving, when the signal is
\* received before ListenAndServe has started.
C15_OrderedOnlyServingSkippable ==
    /\ OrderedShutdown
    /\ [][(mainpc # "return" /\ Phase' > Phase + 1)
            => (Phase = 1 /\ Phase' = 3 /\ mainpc = "start")]_vars

\* C15 witness: serve() served a request, was signalled, shut down, drained a
\* task and returned nil.
C15_Witness ==
    /\ Phase = 4 /\ gpc = "done"
    /\ \E r \in HttpReqs : hreq[r] = "served"
    /\ \E t \in TaskIds : tasks[t] = "finished"

\* C16: when the function handed to background() panics, the panic is recovered
\* in the task's own goroutine: the step decrements the outstanding count by
\* exactly one and changes nothing else than that task, so the process, the
\* other tasks and the requests go on; the process ends only by main after
\* serve() returned; and the outstanding count is the number of tasks scheduled
\* or running, never negative.
C16_PanicContainedCountExact ==
    /\ [](wtgrp >= 0 /\ wtgrp = Cardinality(Outstanding))
    /\ [][\A t \in TaskIds :
            (tasks[t] = "running" /\ tasks'[t] = "recovered")
              => /\ wtgrp' = wtgrp - 1
                 /\ \A u \in TaskIds \ {t} : tasks'[u] = tasks[u]
                 /\ ~exited /\ ~exited'
                 /\ UNCHANGED <<mainpc, serveResult, gpc, srvr, hreq>>]_vars
    /\ [][\A t \in TaskIds : tasks[t] = "recovered" => tasks'[t] = "recovered"]_vars
    /\ [][exited' # exited => mainpc = "return"]_vars

\* C16 witness: one task panicked and was recovered; afterwards the process is
\* alive, another task is running, counted once, and a request is being handled.
C16_Witness ==
    /\ ~exited /\ wtgrp = 1
    /\ \E t1, t2 \in TaskIds : tasks[t1] = "recovered" /\ tasks[t2] = "running"
    /\ \E r \in HttpReqs : hreq[r] = "handling"

Completed(gots) == {got \in gots : got.err \notin StoreErrors}
OtherScope(scope) == CHOOSE other \in Scopes : other # scope
NotFound == [user |-> NilUser, err |-> "ErrRecordNotFound"]

\* C18: right after NewToken(owner, ttl, scope) with ttl > 0, GetForToken with
\* the returned plaintext and the same scope returns that owner, and
\* GetForToken with the same plaintext and the other scope returns
\* ErrRecordNotFound (a lookup returns the error of its query instead when the
\* query itself does not complete, and never another user).
C18_IssueThenLookupRoundTrip ==
    [][\A token \in issued' \ issued :
         LET same  == GetForToken(token.Scope, token.PlainText)'
             other == GetForToken(OtherScope(token.Scope), token.PlainText)'
         IN  /\ Completed(same) = {[user |-> ScannedUser(token.UserId), err |-> "nil"]}
             /\ Completed(other) = {NotFound}
             /\ \A got \in same \cup other : got.user.Id \in {"", token.UserId}]_vars

\* C18 witness: a token was issued and has not expired; looking it up under its
\* scope returns its owner, under the other scope ErrRecordNotFound.
C18_Witness ==
    \E token \in issued :
        /\ TokenRow(token) \in tokens /\ token.Expiry > clock
        /\ [user |-> ScannedUser(token.UserId), err |-> "nil"]
              \in GetForToken(token.Scope, token.PlainText)
        /\ NotFound \in GetForToken(OtherScope(token.Scope), token.PlainText)

\* C19: after DeleteAllForUser(scope, owner), GetForToken returns
\* ErrRecordNotFound for every token of that owner and scope issued before,
\* expired or not, and every other issued token looks up exactly as before.
C19_DeleteAllEndsOwnerScopeOnly ==
    [][(tokens' # tokens /\ tokens' \subseteq tokens) =>
         \E scope \in Scopes, owner \in UserIds :
            \A token \in issued :
               IF token.Scope = scope /\ token.UserId = owner
               THEN \A s \in Scopes :
                       Completed(GetForToken(s, token.PlainText)') = {NotFound}
               ELSE \A s \in Scopes :
                       GetForToken(s, token.PlainText)' = GetForToken(s, token.PlainText)]_vars

\* C19 witness: the tokens of one owner and scope were deleted before they
\* expired and no longer look up, while another issued token still does.
C19_Witness ==
    \E gone, kept \in issued :
        /\ TokenRow(gone) \notin tokens /\ gone.Expiry > clock
        /\ Completed(GetForToken(gone.Scope, gone.PlainText)) = {NotFound}
        /\ TokenRow(kept) \in tokens
        /\ [user |-> ScannedUser(kept.UserId), err |-> "nil"]
              \in GetForToken(kept.Scope, kept.PlainText)

\* A request for activation made with a token that was issued to user u.
MadeWithTokenOf(r, u) ==
    \E token \in issued : /\ token.PlainText = vreq[r].token
                          /\ token.UserId = u /\ token.Scope = ScopeActivation

\* C20: once activateUserHandler has answered 200 for a user, that user is
\* stored as activated and no activation token of that user is stored, and
\* every request for activation that arrives later with a token issued to that
\* user gets no further than the lookup: it is answered 422 "invalid or expired
\* activation token" (or with the error of the lookup's query when that query
\* itself fails) and never 200.
C20_ActivationEndsActivationTokens ==
    \A u \in activatedOk :
        /\ users[u].activated
        /\ ~\E t \in tokens : t.scope = ScopeActivation /\ t.user_id = u
        /\ \A r \in ActReqs :
              (u \in vreq[r].after /\ MadeWithTokenOf(r, u))
                 => /\ vreq[r].pc \in {"GetForToken", "done"}
                    /\ vreq[r].pc = "done"
                          => IF vreq[r].err = "ErrRecordNotFound"
                             THEN vreq[r].resp =
                                    failedValidationResponse("invalid or expired activation token")
                             ELSE /\ vreq[r].err \in StoreErrors
                                  /\ vreq[r].resp = commonErrors(vreq[r].err)

\* C20 witness: a user was activated with a 200, and a later request made with
\* the token issued to that user was rejected as invalid or expired.
C20_Witness ==
    \E u \in activatedOk, r \in ActReqs :
        /\ u \in vreq[r].after /\ MadeWithTokenOf(r, u)
        /\ vreq[r].pc = "done" /\ vreq[r].resp.status = 422
        /\ vreq[r].resp.error = "invalid or expired activation token"
        /\ users[u].activated

\* The Authorization header has the scheme Bearer and one more part, which is
\* not a well-formed token (empty, or not 26 characters long).
BearerWithInvalidToken(authHeader) ==
    /\ authHeader # <<>>
    /\ Len(SplitN2(authHeader)) = 2
    /\ SplitN2(authHeader)[1] = Bearer
    /\ (SplitN2(authHeader)[2] = <<>> \/ Len(SplitN2(authHeader)[2]) # TokenLength)

\* C21: neither authenticate nor activateUserHandler calls GetForToken for a
\* token that is empty or not exactly 26 characters long: authenticate answers
\* 401 invalid token and activateUserHandler a failed validation, and no result
\* of a lookup exists for the request.
C21_NoLookupForMalformedToken ==
    /\ (areq.pc \in {"chain", "done"} /\ BearerWithInvalidToken(areq.header))
          => /\ areq.pc = "done"
             /\ areq.resp = invalidAuthTokenResponse
             /\ areq.err = "" /\ areq.user = NilUser /\ areq.log = <<>>
    /\ \A r \in ActReqs :
          (vreq[r].pc # "idle" /\ (vreq[r].token = <<>> \/ Len(vreq[r].token) # TokenLength))
             => /\ vreq[r].pc = "done"
                /\ vreq[r].resp.status = 422
                /\ vreq[r].resp.error \in {"must be provided", "must be 26 characters long"}
                /\ vreq[r].err = "" /\ vreq[r].user = NilUser

\* C21 witness: a token of 25 characters was sent both as a bearer credential
\* and for activation while a live token is stored; both were rejected.
C21_Witness ==
    /\ tokens # {}
    /\ areq.pc = "done" /\ areq.header = Bearer \o <<" ">> \o ShortToken
    /\ areq.resp.status = 401
    /\ vreq[1].pc = "done" /\ vreq[1].token = ShortToken /\ vreq[1].resp.status = 422

\* C22: the tokens table holds only rows of (hash, user_id, expiry, scope) whose
\* hash is the digest of the plaintext of an issued token with that owner,
\* expiry and scope; no stored hash is an issued plaintext, the other columns
\* are a user id, a time and a scope, and the plaintext is a field of the Token
\* value NewToken returned only.
C22_OnlyDigestsStored ==
    /\ \A t \in tokens :
          /\ DOMAIN t = {"hash", "user_id", "expiry", "scope"}
          /\ \E token \in issued :
                /\ t.hash = Sha256(token.PlainText)
                /\ t.hash = token.Hash
                /\ t.user_id = token.UserId /\ t.expiry = token.Expiry /\ t.scope = token.Scope
          /\ \A token \in issued : t.hash # token.PlainText
          /\ t.hash \notin IssuablePlainTexts
          /\ t.user_id \in UserIds /\ t.scope \in Scopes /\ t.expiry \in Nat
    /\ \A token \in issued :
          /\ "PlainText" \in DOMAIN token
          /\ token.Hash # token.PlainText

\* C22 witness: two tokens were issued and both rows are stored.
C22_Witness ==
    /\ Cardinality(issued) = 2 /\ Cardinality(tokens) = 2
    /\ \E t \in tokens, token \in issued : t.hash = Sha256(token.PlainText)

\* C23: a request whose GetForToken in authenticate, or whose GetAllForUser in
\* requirePermission, ended because the deadline of its context was exceeded is
\* answered with the 504 of deadlineExceededResponse, not with the generic 500,
\* and the lookup was made once.
C23_DeadlineExceededGets504 ==
    (areq.pc = "done" /\ areq.err = "context.DeadlineExceeded")
        => /\ areq.resp = deadlineExceededResponse
           /\ areq.resp # serverErrorResponse
           /\ Len(SelectSeq(areq.log, LAMBDA c : c = "GetAllForUser")) <= 1

\* A finished request for activation whose response commonErrors chose: an
\* error of one of the three statements other than the lookup's not-found.
AnsweredByCommonErrors(r) ==
    /\ vreq[r].pc = "done"
    /\ \/ vreq[r].err \in StoreErrors
       \/ vreq[r].err = "ErrRecordNotFound" /\ vreq[r].user # NilUser

\* C24: commonErrors gives every error of a collaborator exactly one outcome:
\* the 504 response for an exceeded deadline, no response at all for a
\* cancelled request, the generic 500 response for any other error; the outcome
\* depends on the error only.
C24_OneOutcomePerError ==
    /\ \A r \in ActReqs :
          AnsweredByCommonErrors(r) =>
             /\ vreq[r].err = "context.DeadlineExceeded"
                   => vreq[r].resp = [status |-> 504, challenge |-> FALSE,
                        error |-> "deadline exceeded, please try after a few seconds"]
             /\ vreq[r].err = "context.Canceled" => vreq[r].resp = NoResponse
             /\ vreq[r].err \notin {"context.DeadlineExceeded", "context.Canceled"}
                   => vreq[r].resp = [status |-> 500, challenge |-> FALSE,
                        error |-> "server encountered a problem and could not process your request"]
    /\ \A r1, r2 \in ActReqs :
          (AnsweredByCommonErrors(r1) /\ AnsweredByCommonErrors(r2)
             /\ vreq[r1].err = vreq[r2].err) => vreq[r1].resp = vreq[r2].resp

\* C24 witness: one request ended on an exceeded deadline with 504, another was
\* cancelled while its user was being updated and got no response.
C24_Witness ==
    \E r1, r2 \in ActReqs :
        /\ AnsweredByCommonErrors(r1) /\ vreq[r1].err = "context.DeadlineExceeded"
        /\ vreq[r1].resp.status = 504
        /\ AnsweredByCommonErrors(r2) /\ vreq[r2].err = "context.Canceled"
        /\ vreq[r2].user # NilUser /\ vreq[r2].resp.status = 0

\* C25: in updateMovieHandler a movie missing at the fetch is answered 404 (500
\* when Get itself fails) and Update is not called; an Update whose UPDATE
\* affected no row is answered 409, never 404 and never 200; and Update is
\* called at most once per request.
C25_MissingIs404NoRowIs409 ==
    /\ [](\A r \in UReqs :
            /\ ureq[r].updates <= 1
            /\ ureq[r].resp = 404 => (ureq[r].updates = 0 /\ ureq[r].rows = -1
                                        /\ ureq[r].movie = NoMovie)
            /\ ureq[r].rows = 0 => (ureq[r].resp = 409 /\ ureq[r].updates = 1)
            /\ ureq[r].updates = 1 => ureq[r].pc = "done")
    /\ [][\A r \in UReqs :
            (ureq[r].pc = "idle" /\ ureq'[r].pc # "idle" /\ ~movies[ureq'[r].id].exists)
               => /\ ureq'[r].pc = "done" /\ ureq'[r].resp \in {404, 500}
                  /\ ureq'[r].updates = 0
                  /\ UNCHANGED <<movies, commits>>]_vars

\* C25 witness: one request found no movie and got 404; another fetched the
\* movie, its UPDATE affected no row, and it got 409.
C25_Witness ==
    \E r1, r2 \in UReqs :
        /\ ureq[r1].pc = "done" /\ ureq[r1].resp = 404 /\ ureq[r1].updates = 0
        /\ ureq[r2].pc = "done" /\ ureq[r2].rows = 0 /\ ureq[r2].resp = 409

\* C26: with the limiter disabled every request goes from the entry of the
\* handler straight to next.ServeHTTP, whatever the sequence and rate of
\* requests, and no client record is created, changed or looked up; the flag
\* is read by each request as it enters.
C26_DisabledLimiterPassesAll ==
    /\ [](~limiterEnabled =>
            /\ \A k \in ClientKeys : clients[k] = NoClient /\ stats[k].seen = 0
            /\ \A r \in LReqs : lreq[r].pc \in {"idle", "next"})
    /\ [][\A r \in LReqs :
            (~limiterEnabled /\ lreq[r].pc = "idle" /\ lreq'[r].pc # "idle")
               => (lreq'[r].pc = "next" /\ UNCHANGED <<clients, mtx, stats>>)]_vars
    /\ [][\A r \in LReqs :
            (limiterEnabled /\ lreq[r].pc = "idle" /\ lreq'[r].pc # "idle")
               => lreq'[r].pc = "Lock"]_vars

\* C26 witness: the limiter is disabled, time has passed and a sweep is under
\* way, and two requests of the same client are in the next handler at once.
C26_Witness ==
    /\ ~limiterEnabled /\ now > 0 /\ sweeper.pc = "range"
    /\ \E r1, r2 \in LReqs :
          /\ r1 # r2 /\ lreq[r1].pc = "next" /\ lreq[r2].pc = "next"
          /\ lreq[r1].ip = lreq[r2].ip

\* The request has left the handler of enableCORS.
PastCORS(r) == preq[r].pc \notin {"idle", "enableCORS"}
Preflight(r) == preq[r].method = "OPTIONS" /\ preq[r].acrm # ""

\* C27: in enableCORS a request whose Origin is present but not allowed reaches
\* the next handler with no Access-Control-Allow-Origin header; a request from
\* an allowed origin gets that header set to its origin; an OPTIONS request
\* from an allowed origin with Access-Control-Request-Method is answered 200
\* with the allowed methods, headers and max-age and never reaches the next
\* handler.
C27_CORSOnlyForAllowedOrigins ==
    \A r \in PReqs : PastCORS(r) =>
        /\ (preq[r].origin # "" /\ preq[r].origin \notin allowedOrigins)
              => /\ preq[r].next
                 /\ preq[r].header.allowOrigin = "" /\ preq[r].header.allowMethods = ""
                 /\ preq[r].header.allowHeaders = "" /\ preq[r].header.maxAge = ""
        /\ preq[r].origin \in allowedOrigins
              => preq[r].header.allowOrigin = preq[r].origin
        /\ (preq[r].origin \in allowedOrigins /\ Preflight(r))
              => /\ ~preq[r].next /\ preq[r].pc = "done" /\ preq[r].status = 200
                 /\ preq[r].header.allowMethods = "OPTIONS, PUT, PATCH, DELETE"
                 /\ preq[r].header.allowHeaders = "Authorization, Content-Type"
                 /\ preq[r].header.maxAge = "60"
                 /\ preq[r].calls = 0 /\ preq[r].mrw.statusCode = 0
        /\ (preq[r].origin \in allowedOrigins /\ ~Preflight(r)) => preq[r].next

\* C27 witness: a preflight from an origin that is not allowed reached the next
\* handler without the header, and a preflight from an allowed origin was
\* answered 200 by enableCORS.
C27_Witness ==
    \E r1, r2 \in PReqs :
        /\ PastCORS(r1) /\ preq[r1].origin = "https://evil.example" /\ Preflight(r1)
        /\ preq[r1].next /\ preq[r1].header.allowOrigin = ""
        /\ PastCORS(r2) /\ preq[r2].origin = "https://a.example" /\ Preflight(r2)
        /\ preq[r2].status = 200 /\ ~preq[r2].next

\* The requests that have entered requestMetrics, those that have left it by a
\* return of the next handler, and those that have left it by a panic.
EnteredMetrics == {r \in PReqs : preq[r].mrw.statusCode # 0}
ReturnedFromNext == {r \in EnteredMetrics : preq[r].pc = "done"}
PanickedInNext == {r \in EnteredMetrics : preq[r].pc = "recovered"}
\* The first status code written through the metricsResponseWriter, 200 if none.
FirstStatus(r) == IF preq[r].first = 0 THEN 200 ELSE preq[r].first
SentByStatus ==
    metrics.responses_sent_by_status[200] + metrics.responses_sent_by_status[404]
        + metrics.responses_sent_by_status[500]
NoneInFlight == EnteredMetrics = ReturnedFromNext \cup PanickedInNext

\* C28 (as stated): each request entering requestMetrics is counted once in
\* requests_received before the next handler runs, and once in responses_sent
\* and in responses_sent_by_status under its first status code afterwards,
\* whatever the outcome of the next handler; so with no request in flight
\* requests_received = responses_sent = the sum of responses_sent_by_status.
C28_CountedWhateverTheOutcome ==
    /\ metrics.requests_received = Cardinality(EnteredMetrics)
    /\ metrics.responses_sent = Cardinality(ReturnedFromNext \cup PanickedInNext)
    /\ NoneInFlight => /\ metrics.requests_received = metrics.responses_sent
                       /\ metrics.responses_sent = SentByStatus

\* C28 (amended): each request entering requestMetrics is counted once in
\* requests_received before the next handler runs; each request whose next
\* handler returns is counted once in responses_sent and once in
\* responses_sent_by_status under the first status code written (200 if none);
\* a request whose next handler panics is counted in neither. So with no
\* request in flight responses_sent = the sum of responses_sent_by_status, and
\* requests_received exceeds it by the number of panics.
C28_CountedOnceUnlessPanic ==
    /\ metrics.requests_received = Cardinality(EnteredMetrics)
    /\ metrics.responses_sent = Cardinality(ReturnedFromNext)
    /\ \A c \in Statuses :
          metrics.responses_sent_by_status[c]
             = Cardinality({r \in ReturnedFromNext : FirstStatus(r) = c})
    /\ metrics.responses_sent = SentByStatus
    /\ NoneInFlight =>
          metrics.requests_received = metrics.responses_sent + Cardinality(PanickedInNext)

\* C28 witness: no request is in flight; one wrote 404 and then 500 and was
\* counted under 404, the other panicked in the next handler and was answered
\* 500 by recoverPanic without being counted.
C28_Witness ==
    /\ NoneInFlight
    /\ \E r1, r2 \in PReqs :
          /\ r1 \in ReturnedFromNext /\ preq[r1].calls = 2 /\ preq[r1].first = 404
          /\ metrics.responses_sent_by_status[404] = 1
          /\ r2 \in PanickedInNext /\ preq[r2].status = 500
          /\ metrics.requests_received = 2 /\ metrics.responses_sent = 1

\* C29: the mutex of the rate limiter is not held by a request while its 429
\* response is written or while its next handler runs; every path through the
\* handler and every sweep ends its section with Unlock; so a request waiting
\* in mtx.Lock() gets the mutex, and so does a sweep that is due.
C29_MutexReleasedNoneStarves ==
    /\ [](mtx = "locked" <=> ((\E r \in LReqs : InSection(r)) \/ SweeperInSection))
    /\ [](\A r \in LReqs : lreq[r].pc # "panic")
    /\ [][\A r \in LReqs :
            (InSection(r) /\ lreq'[r].pc \in {"rateLimitExceededResponse", "next", "idle"})
               => mtx' = "unlocked"]_vars
    /\ [][(SweeperInSection /\ sweeper'.pc = "Sleep") => mtx' = "unlocked"]_vars
    /\ \A r \in LReqs : (lreq[r].pc = "Lock") ~> (lreq[r].pc = "lookup")
    /\ (sweeper.pc = "Sleep" /\ now >= sweeper.wake) ~> (sweeper.pc = "range")

\* C29 witness: one request writes its 429 response and the other runs its next
\* handler while the sweeper holds the mutex.
C29_Witness ==
    /\ mtx = "locked" /\ sweeper.pc = "range"
    /\ \E r1, r2 \in LReqs :
          /\ lreq[r1].pc = "rateLimitExceededResponse"
          /\ lreq[r2].pc = "next"

\* C30: with the limiter enabled every request reaches Allow only through the
\* statement that sets its client's lastSeen to the current time, before the
\* bucket decides, so the verdict (admitted or denied) is given on a record
\* stamped by that request; lastSeen of a record is never set to anything but
\* the current time; a sweep leaves every record whose lastSeen is at most 3
\* minutes old as it is; a record is deleted only by a sweep that finds its
\* lastSeen more than 3 minutes old, whatever the verdicts on its requests.
C30_EveryRequestStampsFreshKept ==
    /\ [][\A r \in LReqs : (lreq[r].pc # "Allow" /\ lreq'[r].pc = "Allow")
            => /\ limiterEnabled /\ lreq[r].pc = "stamp"
               /\ clients'[lreq[r].ip].present
               /\ clients'[lreq[r].ip].lastSeen = now]_vars
    /\ [][\A r \in LReqs : lreq'[r].pc \in {"UnlockDeny", "UnlockPass"} /\ lreq[r].pc # lreq'[r].pc
            => /\ lreq[r].pc = "Allow"
               /\ clients'[lreq[r].ip].present
               /\ clients'[lreq[r].ip].lastSeen = clients[lreq[r].ip].lastSeen]_vars
    /\ [][\A k \in ClientKeys :
            (clients[k].present /\ clients'[k].present /\ clients'[k].lastSeen # clients[k].lastSeen)
                => clients'[k].lastSeen = now]_vars
    /\ [][(sweeper.pc = "range" /\ sweeper'.pc = "Unlock")
            => \A k \in ClientKeys :
                  (clients[k].present /\ now - clients[k].lastSeen <= StaleSeconds * rps * TicksPerToken)
                      => clients'[k] = clients[k]]_vars
    /\ [][\A k \in ClientKeys : (clients[k].present /\ ~clients'[k].present)
            => /\ sweeper.pc = "range"
               /\ now - clients[k].lastSeen > StaleSeconds * rps * TicksPerToken]_vars

\* C30 witness: a request of a client was denied; exactly 3 minutes after that
\* request stamped the record a sweep has run and the record is still there,
\* never having been deleted.
C30_Witness ==
    \E r \in LReqs :
        LET k == lreq[r].ip
        IN  /\ lreq[r].pc = "rateLimitExceededResponse"
            /\ sweeper.pc = "Unlock"
            /\ clients[k].present /\ ~stats[k].evicted
            /\ stats[k].seen > stats[k].admitted
            /\ now - clients[k].lastSeen = StaleTicks

\* C31: on every shutdown the goroutine delivers exactly one outcome on
\* shutdownError and then terminates: once serve() has received the outcome
\* (nil or the error of srvr.Shutdown) the goroutine is never at a channel send
\* again, and after delivering nil it is done.
C31_OneOutcomeThenTerminates ==
    /\ serveResult \in {"nil", "shutdown_error"} => gpc \notin {"sendErr", "sendNil"}
    /\ serveResult = "nil" => gpc = "done"

\* C32: MovieModel.Update is all-or-nothing. No step of a call other than its
\* successful Commit changes the stored row or its genre links, so a call that
\* returns an error (ErrEditConflict, unknown genre, a failure at any
\* statement) leaves them as they were; nil is returned only by the Commit
\* step, and then the stored title, runtime, year and the whole set of links are
\* those of the supplied movie.
C32_UpdateAllOrNothing ==
    /\ [][\A r \in UReqs : txn'[r] # txn[r] =>
            IF txn'[r].result = "nil"
            THEN /\ txn[r].pc = "INSERT" /\ txn'[r].pc = "returned"
                 /\ movies'[txn[r].id] = txn[r].movie
            ELSE /\ movies' = movies
                 /\ commits' = commits]_vars
    /\ [](\A r \in UReqs : txn[r].pc = "returned" =>
            /\ txn[r].result \in {"nil", "ErrEditConflict", "error"}
            /\ ~txn[r].locked
            /\ txn[r].result # "nil" => (txn[r].row = NoMovie /\ txn[r].links = "untouched"))

\* C32 witness: one call has updated the row, deleted the links and inserted
\* one, then returned an error at the second genre; the other call returned
\* nil, and the stored movie is the one that call supplied, with nothing of the
\* failed call in it.
C32_Witness ==
    \E r1, r2 \in UReqs :
        /\ txn[r1].pc = "returned" /\ txn[r1].result = "error" /\ txn[r1].stmts = 4
        /\ txn[r2].pc = "returned" /\ txn[r2].result = "nil" /\ txn[r2].id = txn[r1].id
        /\ movies[txn[r1].id] = txn[r2].movie
        /\ txn[r1].movie.title # txn[r2].movie.title

\* C33: a request activateUserHandler has answered with an error response left
\* things as they were: if it had found its user, then (unless another request
\* has meanwhile activated that user with a 200, or is between its UpdateUser
\* and its DeleteAllForUser) the user is still stored as not activated and the
\* user's activation token is still stored; the flag and the tokens change
\* together or not at all.
C33_ErrorLeavesFlagAndTokens ==
    \A r \in ActReqs :
        (vreq[r].pc = "done" /\ vreq[r].resp.status >= 400 /\ vreq[r].user # NilUser)
            => LET u == vreq[r].user.Id
               IN  \/ u \in activatedOk
                   \/ \E r2 \in ActReqs \ {r} :
                         vreq[r2].pc = "DeleteAllForUser" /\ vreq[r2].user.Id = u
                   \/ /\ ~users[u].activated
                      /\ \E t \in tokens : t.scope = ScopeActivation /\ t.user_id = u

\* C34: registerUserHandler calls background at most once per request, and
\* only after InsertUser, AddForUser and NewToken have all succeeded (user id
\* taken, permission granted, activation token stored); a request any of whose
\* steps failed ends with no task and not with 202; a request answered 202 has
\* scheduled exactly one task; and the 202 is written whatever the state of
\* the task: the write is enabled as soon as background has returned.
C34_WelcomeTaskOnceAfterAllSucceeded ==
    \A r \in RegReqs :
        LET q == rreq[r]
        IN  /\ q.scheduled <= 1
            /\ q.scheduled = 1 <=> q.task # "none"
            /\ q.scheduled = 1 =>
                  /\ q.succeeded = AllRegisterCalls
                  /\ q.user \in UserIds /\ "movie:user" \in permissions[q.user]
                  /\ \E t \in issued : t.UserId = q.user /\ t.Scope = ScopeActivation
                                        /\ TokenRow(t) \in tokens
            /\ (q.pc = "done" /\ q.succeeded # AllRegisterCalls) =>
                  (q.scheduled = 0 /\ q.resp.status # 202)
            /\ q.resp.status = 202 => q.scheduled = 1
            /\ q.pc = "done" => (q.resp.status = 202 <=> q.succeeded = AllRegisterCalls)
            /\ q.pc = "writeJSON" => ENABLED registerUserHandler_writeJSON(r)

\* C34 witness: one request was answered 202 while the goroutine of its email
\* had not yet started; another got as far as a granted permission, failed at
\* NewToken and ended with an error and no task.
C34_Witness ==
    \E r1, r2 \in RegReqs :
        /\ rreq[r1].pc = "done" /\ rreq[r1].resp.status = 202
        /\ rreq[r1].taskAtResp = "scheduled" /\ rreq[r1].scheduled = 1
        /\ rreq[r2].pc = "done" /\ rreq[r2].succeeded = {"InsertUser", "AddForUser"}
        /\ rreq[r2].resp.status = 500 /\ rreq[r2].task = "none"

\* The request passed validation and its lookup or comparison completed with
\* the email unknown, respectively with the email known and the password wrong.
UnknownEmail(r) ==
    /\ creq[r].pc = "done" /\ creq[r].err = "ErrRecordNotFound"
    /\ creq[r].email \notin DOMAIN Accounts
WrongPasswordFor(r) ==
    /\ creq[r].pc = "done" /\ creq[r].err = "mismatch"
    /\ creq[r].email \in DOMAIN Accounts
    /\ Accounts[creq[r].email].hash # Bcrypt(creq[r].password)

\* C35: createAuthTokenHandler answers an unknown email and a known email with
\* a wrong password with one and the same response, the 401 of
\* invalidCredentialsResponse; a request that did not end with 201 has created
\* no token; every token stored belongs to a request answered 201 whose email
\* exists and whose password matches the stored hash, and is an authentication
\* token of that user.
C35_SameRefusalNoTokenUnlessMatch ==
    /\ \A r1, r2 \in CredReqs :
          (UnknownEmail(r1) /\ WrongPasswordFor(r2))
             => /\ creq[r1].resp = creq[r2].resp
                /\ creq[r1].resp = invalidCredentialsResponse
    /\ \A r \in CredReqs :
          /\ (creq[r].pc = "done" /\ creq[r].email \notin DOMAIN Accounts
                 /\ creq[r].resp.status \notin {400, 422} /\ creq[r].err \notin StoreErrors)
                => UnknownEmail(r) /\ creq[r].resp = invalidCredentialsResponse
          /\ creq[r].resp.status # 201 => creq[r].token = <<>>
          /\ creq[r].token # <<>> =>
                /\ creq[r].resp = createdResponse
                /\ creq[r].email \in DOMAIN Accounts
                /\ Accounts[creq[r].email].hash = Bcrypt(creq[r].password)
    /\ tokens = {TokenRow(t) : t \in issued}
    /\ \A t \in issued :
          /\ t.Scope = ScopeAuthentication
          /\ \E r \in CredReqs : creq[r].token = t.PlainText /\ creq[r].user = t.UserId
                                  /\ Accounts[creq[r].email].id = t.UserId
    /\ Cardinality(issued) = Cardinality({r \in CredReqs : creq[r].token # <<>>})

\* C35 witness: one request with an unknown email and one with the password of
\* a known email wrong were both answered 401 with the same body, and nothing
\* is stored.
C35_Witness ==
    \E r1, r2 \in CredReqs :
        /\ UnknownEmail(r1) /\ WrongPasswordFor(r2)
        /\ creq[r1].resp.status = 401 /\ creq[r2].resp.status = 401
        /\ creq[r2].email = "a@example.com" /\ creq[r2].password = WrongPassword
        /\ tokens = {}
====
